---- MODULE Spec2Model ----
(***************************************************************************)
(* HTML -> structured text conversion of contxt: the Markdown work-list    *)
(* traversal (formatters/markdown_formatter.py), the XML tree builder      *)
(* (formatters/xml_formatter.py) and the HTML re-serializer                *)
(* (formatters/html_formatter.py), over a parsed BeautifulSoup tree.       *)
(*                                                                         *)
(* A Python str is a sequence of one-character strings.  A parsed tree is  *)
(* a record [parent, label]: nodes are numbered 1..n in document order     *)
(* (the order in which the parser creates them), node 1 is the             *)
(* BeautifulSoup object itself, parent[i] is the parent of node i.         *)
(***************************************************************************)
EXTENDS Integers, Sequences, FiniteSets, TLC

\* ------------------------------------------------------------ bounds
\* Largest number of nodes of an enumerated tree (the document node included).
MaxNodes == 4
\* Deepest chain of nested <div><p>T</p>...</div> documents.
MaxNest == 3
\* the nodes of a tree given to format(), the soup included
MaxFormatNodes == 3
\* the calls of format() in a behaviour
MaxCalls == 2
\* the <tr> of an enumerated <table>
MaxRows == 3
\* the direct <li> of an enumerated list
MaxItems == 3
\* the characters of an enumerated tag or attribute name
MaxNameLen == 3
\* the successive applications of a sanitizer to a name
MaxSanitize == 2
\* the elements of a page given to the fallback extractor
MaxExtract == 3
\* the sibling items of a page given to the cleaning passes of the scraper
MaxScrape == 3
\* the conversions made one after the other in one process
MaxSession == 3
\* the list items of a page converted in a session
MaxSessionItems == 2
\* the URLs given to one run of the command line
MaxUrls == 3

\* ------------------------------------------------------------ strings
Whitespace == {" ", "\n", "\t"}

\* The backtick character (a string literal of the module cannot hold it).
BT == "backtick"

RECURSIVE LStrip(_)
\* str.lstrip(): drop leading whitespace.
LStrip(s) ==
    IF s # <<>> /\ Head(s) \in Whitespace THEN LStrip(Tail(s)) ELSE s

RECURSIVE RStrip(_)
\* str.rstrip(): drop trailing whitespace.
RStrip(s) ==
    IF s # <<>> /\ s[Len(s)] \in Whitespace
    THEN RStrip(SubSeq(s, 1, Len(s) - 1)) ELSE s

\* str.strip()
Strip(s) == RStrip(LStrip(s))

RECURSIVE Join(_, _)
\* sep.join(parts) for a sequence of strings
Join(sep, parts) ==
    IF parts = <<>> THEN <<>>
    ELSE IF Len(parts) = 1 THEN parts[1]
    ELSE parts[1] \o sep \o Join(sep, Tail(parts))

RECURSIVE Repeat(_, _)
\* c * n for a one-character string c
Repeat(c, n) == IF n <= 0 THEN <<>> ELSE <<c>> \o Repeat(c, n - 1)

RECURSIVE Count(_, _)
\* number of positions of s holding character c
Count(c, s) ==
    IF s = <<>> THEN 0
    ELSE (IF Head(s) = c THEN 1 ELSE 0) + Count(c, Tail(s))

\* s.startswith(prefix)
StartsWith(s, prefix) ==
    Len(s) >= Len(prefix) /\ SubSeq(s, 1, Len(prefix)) = prefix

RECURSIVE Contains(_, _)
\* sub in s
Contains(s, sub) ==
    IF Len(s) < Len(sub) THEN FALSE
    ELSE StartsWith(s, sub) \/ Contains(Tail(s), sub)

RECURSIVE Occurrences(_, _)
\* s.count(sub): non-overlapping occurrences, scanning from the left
Occurrences(s, sub) ==
    IF sub = <<>> \/ Len(s) < Len(sub) THEN 0
    ELSE IF StartsWith(s, sub)
         THEN 1 + Occurrences(SubSeq(s, Len(sub) + 1, Len(s)), sub)
         ELSE Occurrences(Tail(s), sub)

Digit(d) == <<"0", "1", "2", "3", "4", "5", "6", "7", "8", "9">>[d + 1]

RECURSIVE IntToStr(_)
\* str(n) for n >= 0, as an f-string formats it
IntToStr(n) ==
    IF n < 10 THEN <<Digit(n)>> ELSE IntToStr(n \div 10) \o <<Digit(n % 10)>>

RECURSIVE SplitLines(_, _)
\* s.split('\n'), cur being the line read so far
SplitLines(s, cur) ==
    IF s = <<>> THEN <<cur>>
    ELSE IF Head(s) = "\n" THEN <<cur>> \o SplitLines(Tail(s), <<>>)
    ELSE SplitLines(Tail(s), Append(cur, Head(s)))

\* ------------------------------------------------------------ the DOM
\* bs4 node classes: Tag (name set), and the NavigableString classes, whose
\* name is None: plain text, Comment, and Script (the string inside a
\* <script> or <style>).
StringKinds == {"NavigableString", "Comment", "Script"}

Txt(kind, s) == [kind |-> kind, name |-> "None", attrs |-> <<>>, string |-> s]
Elem(name, attrs) == [kind |-> "Tag", name |-> name, attrs |-> attrs, string |-> <<>>]

\* The BeautifulSoup object: a Tag named "[document]".
DocumentLabel == Elem("[document]", <<>>)

NodesOf(doc) == 1 .. Len(doc.parent)

IsString(doc, n) == doc.label[n].kind \in StringKinds

\* list(element.children): the children of n, in document order
Children(doc, n) ==
    LET kids == {i \in NodesOf(doc) : doc.parent[i] = n}
        F[i \in 0 .. Len(doc.parent)] ==
            IF i = 0 THEN <<>>
            ELSE IF i \in kids THEN Append(F[i - 1], i) ELSE F[i - 1]
    IN F[Len(doc.parent)]

RECURSIVE IsAncestor(_, _, _)
\* a is a proper ancestor of n
IsAncestor(doc, a, n) ==
    IF n = 0 \/ doc.parent[n] = 0 THEN FALSE
    ELSE doc.parent[n] = a \/ IsAncestor(doc, a, doc.parent[n])

\* element.descendants: the proper descendants of n, in document order
Descendants(doc, n) ==
    LET F[i \in 0 .. Len(doc.parent)] ==
            IF i = 0 THEN <<>>
            ELSE IF IsAncestor(doc, n, i) THEN Append(F[i - 1], i) ELSE F[i - 1]
    IN F[Len(doc.parent)]

\* element.get(key, default)
Get(doc, n, key, default) ==
    IF key \in DOMAIN doc.label[n].attrs THEN doc.label[n].attrs[key] ELSE default

\* element.get_text(strip=True): the stripped plain strings below n, empty ones
\* dropped, joined by "".  Only NavigableString (not Comment, not Script)
\* strings are text (bs4 >= 4.11, setup.py).
GetTextStrip(doc, n) ==
    LET d == Descendants(doc, n)
        F[i \in 0 .. Len(d)] ==
            IF i = 0 THEN <<>>
            ELSE IF doc.label[d[i]].kind = "NavigableString"
                 THEN F[i - 1] \o Strip(doc.label[d[i]].string)
                 ELSE F[i - 1]
    IN F[Len(d)]

\* element.get_text(): the plain strings below n, joined by ""
GetText(doc, n) ==
    LET d == Descendants(doc, n)
        F[i \in 0 .. Len(d)] ==
            IF i = 0 THEN <<>>
            ELSE IF doc.label[d[i]].kind = "NavigableString"
                 THEN F[i - 1] \o doc.label[d[i]].string
                 ELSE F[i - 1]
    IN F[Len(d)]

\* element.find(name): the first descendant Tag with that name, 0 for None
Find(doc, n, names) ==
    LET hits == {i \in NodesOf(doc) :
                    /\ IsAncestor(doc, n, i)
                    /\ doc.label[i].kind = "Tag"
                    /\ doc.label[i].name \in names}
    IN IF hits = {} THEN 0 ELSE CHOOSE i \in hits : \A j \in hits : i <= j

\* element.find_all(names): every descendant Tag with one of the names
FindAll(doc, n, names) ==
    LET d == Descendants(doc, n)
        F[i \in 0 .. Len(d)] ==
            IF i = 0 THEN <<>>
            ELSE IF doc.label[d[i]].kind = "Tag" /\ doc.label[d[i]].name \in names
                 THEN Append(F[i - 1], d[i])
                 ELSE F[i - 1]
    IN F[Len(d)]

\* element.find_all(names, recursive=False): the child Tags with one of the names
FindAllDirect(doc, n, names) ==
    LET c == Children(doc, n)
        F[i \in 0 .. Len(c)] ==
            IF i = 0 THEN <<>>
            ELSE IF doc.label[c[i]].kind = "Tag" /\ doc.label[c[i]].name \in names
                 THEN Append(F[i - 1], c[i])
                 ELSE F[i - 1]
    IN F[Len(c)]

\* ------------------------------------------------------------ Markdown rendering
HeadingNames == {"h1", "h2", "h3", "h4", "h5", "h6"}

\* int(element.name[1]) for a heading name
HeadingLevel(name) ==
    CASE name = "h1" -> 1 [] name = "h2" -> 2 [] name = "h3" -> 3
      [] name = "h4" -> 4 [] name = "h5" -> 5 [] name = "h6" -> 6

\* Elements whose branch ends in "continue", and the list of the final test:
\* their children are not put on the stack.
SkipChildrenNames == {"pre", "blockquote", "ul", "ol", "table"}

LanguagePrefix == <<"l", "a", "n", "g", "u", "a", "g", "e", "-">>

\* The inner loop over tag.get('class', []): the first class that starts with
\* 'language-' sets lang to the rest of it; without one lang is unchanged.
LangOfClasses(classes, lang) ==
    LET hits == {i \in 1 .. Len(classes) : StartsWith(classes[i], LanguagePrefix)}
    IN IF hits = {} THEN lang
       ELSE LET i == CHOOSE k \in hits : \A j \in hits : k <= j
            IN SubSeq(classes[i], Len(LanguagePrefix) + 1, Len(classes[i]))

\* The fenced block of a <pre>.
PreFragment(doc, n) ==
    LET code_element == Find(doc, n, {"code"})
        code == IF code_element # 0 THEN GetText(doc, code_element) ELSE GetText(doc, n)
        lang1 == LangOfClasses(Get(doc, n, "class", <<>>), <<>>)
        lang == IF code_element # 0
                THEN LangOfClasses(Get(doc, code_element, "class", <<>>), lang1)
                ELSE lang1
    IN <<BT, BT, BT>> \o lang \o <<"\n">> \o code \o <<"\n", BT, BT, BT, "\n", "\n">>

\* The quoted lines of a <blockquote>.
BlockquoteFragment(doc, n) ==
    LET lines == SplitLines(GetTextStrip(doc, n), <<>>)
        quoted_lines == [i \in 1 .. Len(lines) |->
                            IF Strip(lines[i]) # <<>> THEN <<">", " ">> \o lines[i]
                            ELSE <<">">>]
    IN Join(<<"\n">>, quoted_lines) \o <<"\n", "\n">>

\* Mutant of ListItems: every descendant <li> is enumerated.
ListItemsRecursive(doc, n) ==
    LET lis == FindAll(doc, n, {"li"})
    IN [i \in 1 .. Len(lis) |->
            (IF doc.label[n].name = "ol" THEN IntToStr(i) \o <<".">> ELSE <<"-">>)
            \o <<" ">> \o GetTextStrip(doc, lis[i])]

\* list_items of a <ul> or <ol>: one "marker text" line for every direct <li>.
ListItems(doc, n) ==
    LET lis == FindAllDirect(doc, n, {"li"})
    IN [i \in 1 .. Len(lis) |->
            (IF doc.label[n].name = "ol" THEN IntToStr(i) \o <<".">> ELSE <<"-">>)
            \o <<" ">> \o GetTextStrip(doc, lis[i])]

\* '| ' + ' | '.join(cells) + ' |'
TableLine(cells) == <<"|", " ">> \o Join(<<" ", "|", " ">>, cells) \o <<" ", "|">>

\* Mutant of TableRows: the first <tr> is not skipped among the body rows.
TableRowsHeaderRepeated(doc, n) ==
    LET header_row == Find(doc, n, {"tr"})
        hcells == IF header_row = 0 THEN <<>> ELSE FindAll(doc, header_row, {"th", "td"})
        headers == [i \in 1 .. Len(hcells) |-> GetTextStrip(doc, hcells[i])]
        separators == [i \in 1 .. Len(hcells) |->
                          Repeat("-", IF Len(headers[i]) > 3 THEN Len(headers[i]) ELSE 3)]
        head == IF headers # <<>> THEN <<TableLine(headers), TableLine(separators)>>
                ELSE <<>>
        rows == FindAll(doc, n, {"tr"})
        F[i \in 0 .. Len(rows)] ==
            IF i = 0 THEN <<>>
            ELSE LET cs == FindAll(doc, rows[i], {"td", "th"})
                     cells == [k \in 1 .. Len(cs) |-> GetTextStrip(doc, cs[k])]
                 IN IF cells # <<>> THEN Append(F[i - 1], TableLine(cells)) ELSE F[i - 1]
    IN head \o F[Len(rows)]

\* table_rows of a <table>: header line and separator line from the first <tr>,
\* then one line for every later <tr> that has cells.
TableRows(doc, n) ==
    LET header_row == Find(doc, n, {"tr"})
        hcells == IF header_row = 0 THEN <<>> ELSE FindAll(doc, header_row, {"th", "td"})
        headers == [i \in 1 .. Len(hcells) |-> GetTextStrip(doc, hcells[i])]
        separators == [i \in 1 .. Len(hcells) |->
                          Repeat("-", IF Len(headers[i]) > 3 THEN Len(headers[i]) ELSE 3)]
        head == IF headers # <<>> THEN <<TableLine(headers), TableLine(separators)>>
                ELSE <<>>
        rows == FindAll(doc, n, {"tr"})
        F[i \in 0 .. Len(rows)] ==
            IF i = 0 THEN <<>>
            ELSE IF i = 1 /\ header_row # 0 THEN F[i - 1]
            ELSE LET cs == FindAll(doc, rows[i], {"td", "th"})
                     cells == [k \in 1 .. Len(cs) |-> GetTextStrip(doc, cs[k])]
                 IN IF cells # <<>> THEN Append(F[i - 1], TableLine(cells)) ELSE F[i - 1]
    IN head \o F[Len(rows)]

\* Mutant of LinkFragment: the text also stands in for a missing href.
LinkFragmentTextAsTarget(doc, n) ==
    LET h == Get(doc, n, "href", <<>>)
        text == GetTextStrip(doc, n)
        href == IF h # <<>> THEN h ELSE text
    IN <<"[">> \o (IF text # <<>> THEN text ELSE href) \o <<"]", "(">> \o href \o <<")">>

\* The link of an <a>: label is the text, or the href when there is no text.
LinkFragment(doc, n) ==
    LET href == Get(doc, n, "href", <<>>)
        t == GetTextStrip(doc, n)
        text == IF t # <<>> THEN t ELSE href
    IN <<"[">> \o text \o <<"]", "(">> \o href \o <<")">>

ImageAltDefault == <<"I", "m", "a", "g", "e">>

\* The image reference of an <img>: appended only when src is not empty.
ImageFragments(doc, n) ==
    LET src == Get(doc, n, "src", <<>>)
        a == Get(doc, n, "alt", <<>>)
        alt == IF a # <<>> THEN a ELSE ImageAltDefault
    IN IF src # <<>>
       THEN << <<"!", "[">> \o alt \o <<"]", "(">> \o src \o <<")">> >>
       ELSE <<>>

\* What one iteration appends to output_buffer for the Tag n: a sequence of
\* zero or one fragments (the if/elif chain on element.name).
ElementFragments(doc, n) ==
    LET name == doc.label[n].name
        text == GetTextStrip(doc, n)
    IN CASE name \in HeadingNames ->
              << <<"\n">> \o Repeat("#", HeadingLevel(name)) \o <<" ">> \o text \o <<"\n">> >>
         [] name = "p" ->
              IF text # <<>> THEN << text \o <<"\n", "\n">> >> ELSE <<>>
         [] name = "a" -> << LinkFragment(doc, n) >>
         [] name = "img" -> ImageFragments(doc, n)
         [] name \in {"strong", "b"} ->
              IF text # <<>> THEN << <<"*", "*">> \o text \o <<"*", "*">> >> ELSE <<>>
         [] name \in {"em", "i"} ->
              IF text # <<>> THEN << <<"*">> \o text \o <<"*">> >> ELSE <<>>
         [] name = "code" ->
              IF BT \in {GetText(doc, n)[k] : k \in 1 .. Len(GetText(doc, n))}
              THEN << <<BT, BT>> \o GetText(doc, n) \o <<BT, BT>> >>
              ELSE << <<BT>> \o GetText(doc, n) \o <<BT>> >>
         [] name = "pre" -> << PreFragment(doc, n) >>
         [] name = "blockquote" -> << BlockquoteFragment(doc, n) >>
         [] name \in {"ul", "ol"} ->
              IF ListItems(doc, n) # <<>>
              THEN << Join(<<"\n">>, ListItems(doc, n)) \o <<"\n", "\n">> >>
              ELSE <<>>
         [] name = "table" ->
              IF TableRows(doc, n) # <<>>
              THEN << Join(<<"\n">>, TableRows(doc, n)) \o <<"\n", "\n">> >>
              ELSE <<>>
         [] name = "hr" -> << <<"-", "-", "-", "\n", "\n">> >>
         [] name = "br" -> << <<"\n">> >>
         [] OTHER -> <<>>

\* Mutant of ScheduledChildren: the children inserted at index 0 one by one
\* without reversed(), which leaves them on the stack last child first.
ScheduledChildrenUnreversed(doc, n, depth) ==
    IF doc.label[n].name \in {"pre", "blockquote", "ul", "ol", "table"} THEN <<>>
    ELSE LET c == Children(doc, n)
         IN [i \in 1 .. Len(c) |-> <<c[Len(c) + 1 - i], depth + 1>>]

\* Mutant of ScheduledChildren: element.descendants in place of
\* element.children, which schedules the nodes further down again and again.
ScheduledDescendants(doc, n, depth) ==
    IF doc.label[n].name \in SkipChildrenNames THEN <<>>
    ELSE LET c == Descendants(doc, n)
         IN [i \in 1 .. Len(c) |-> <<c[i], depth + 1>>]

\* The frames the iteration puts at the front of the stack: the children of n
\* at depth + 1, in document order (inserted at index 0 in reversed order);
\* none for the names of the final test.
ScheduledChildren(doc, n, depth) ==
    IF doc.label[n].name \in SkipChildrenNames THEN <<>>
    ELSE LET c == Children(doc, n)
         IN [i \in 1 .. Len(c) |-> <<c[i], depth + 1>>]

\* markdown_output = []: the buffer _html_to_markdown creates for the call.
NewMarkdownOutput == <<>>

\* output_buffer after the iteration that pops the head of a non-empty stack.
IterationBuffer(doc, st, buf) ==
    LET element == Head(st)[1]
        text == Strip(doc.label[element].string)
    IN IF IsString(doc, element)
       THEN (IF text # <<>> THEN Append(buf, text) ELSE buf)
       ELSE buf \o ElementFragments(doc, element)

\* Mutant of IterationStack: the head is read as stack[0] and stays on the
\* stack.
IterationStackKeepingHead(doc, st) ==
    LET element == Head(st)[1]
    IN IF IsString(doc, element) THEN st
       ELSE ScheduledChildren(doc, element, Head(st)[2]) \o st

\* stack after the iteration that pops the head of a non-empty stack.
IterationStack(doc, st) ==
    LET element == Head(st)[1]
    IN IF IsString(doc, element) THEN Tail(st)
       ELSE ScheduledChildren(doc, element, Head(st)[2]) \o Tail(st)

RECURSIVE ProcessElementIteratively(_, _, _)
\* The while loop run to its end: the buffer when the stack is empty.
ProcessElementIteratively(doc, st, buf) ==
    IF st = <<>> THEN buf
    ELSE ProcessElementIteratively(doc, IterationStack(doc, st),
                                   IterationBuffer(doc, st, buf))

RECURSIVE CollapseNewlines(_)
\* re.sub(r'\n{3,}', '\n\n', s): every maximal run of 3 or more newlines
\* becomes two.
CollapseNewlines(s) ==
    IF s = <<>> THEN <<>>
    ELSE IF Head(s) # "\n" THEN <<Head(s)>> \o CollapseNewlines(Tail(s))
    ELSE LET run == CHOOSE k \in 1 .. Len(s) :
                        /\ \A j \in 1 .. k : s[j] = "\n"
                        /\ (k = Len(s) \/ s[k + 1] # "\n")
         IN (IF run >= 3 THEN <<"\n", "\n">> ELSE SubSeq(s, 1, run))
            \o CollapseNewlines(SubSeq(s, run + 1, Len(s)))

\* The length of a match of r'#{1,6} ' at the start of s, 0 for no match
\* (greedy: as many '#' as possible, at most six, then one space).
HeadingMarkerLen(s) ==
    LET hashes == {k \in 1 .. 6 : k + 1 <= Len(s) /\ s[k + 1] = " "
                                  /\ \A j \in 1 .. k : s[j] = "#"}
    IN IF hashes = {} THEN 0
       ELSE 1 + (CHOOSE k \in hashes : \A j \in hashes : j <= k)

RECURSIVE HeadingBlankLine(_)
\* re.sub(r'([^\n])\n(#{1,6} )', r'\1\n\n\2', s): leftmost non-overlapping
\* matches; a match is a non-newline, a newline and a heading marker.
HeadingBlankLine(s) ==
    IF Len(s) < 2 THEN s
    ELSE LET m == HeadingMarkerLen(SubSeq(s, 3, Len(s)))
         IN IF s[1] # "\n" /\ s[2] = "\n" /\ m > 0
            THEN <<s[1], "\n", "\n">> \o SubSeq(s, 3, 2 + m)
                 \o HeadingBlankLine(SubSeq(s, 3 + m, Len(s)))
            ELSE <<s[1]>> \o HeadingBlankLine(Tail(s))

\* Mutant of CleanOutput: runs of newlines are not collapsed.
CleanOutputNoCollapse(buffer) == HeadingBlankLine(Join(<<"\n">>, buffer))

\* The post-processing of _html_to_markdown: join, then the two substitutions.
CleanOutput(buffer) == HeadingBlankLine(CollapseNewlines(Join(<<"\n">>, buffer)))

\* ------------------------------------------------------------ input documents
\* Tags without children in a parsed tree (the parser closes them at once).
VoidNames == {"img", "br", "hr"}

\* Elements whose content the parser keeps as one Script string.
RawTextNames == {"script", "style"}

\* The parent sequences of the trees with n nodes, numbered in document order:
\* the parent of node i is node i - 1 or one of its ancestors.
Trees(n) ==
    {p \in [1 .. n -> 0 .. n - 1] :
        /\ p[1] = 0
        /\ \A i \in 2 .. n :
              /\ p[i] >= 1
              /\ p[i] = i - 1 \/ IsAncestor([parent |-> p], p[i], i - 1)}

\* What html.parser can produce: strings and void elements are leaves, a
\* Script string is the only child of a <script>/<style> and occurs nowhere
\* else, and two plain strings are never adjacent siblings (the parser
\* delivers a run of text as one string).
WellFormed(doc) ==
    /\ doc.label[1] = DocumentLabel
    /\ \A i \in NodesOf(doc) \ {1} :
          LET up == doc.label[doc.parent[i]]
          IN /\ up.kind = "Tag"
             /\ up.name \notin VoidNames
             /\ (doc.label[i].kind = "Script") = (up.name \in RawTextNames)
             /\ doc.label[i] # DocumentLabel
    /\ \A i \in NodesOf(doc) :
          doc.label[i].kind = "Tag" /\ doc.label[i].name \in RawTextNames
             => Len(Children(doc, i)) <= 1
    /\ \A i, j \in NodesOf(doc) :
          /\ i < j
          /\ doc.parent[i] = doc.parent[j]
          /\ doc.label[i].kind = "NavigableString"
          /\ doc.label[j].kind = "NavigableString"
          => \E k \in i + 1 .. j - 1 : doc.parent[k] = doc.parent[i]

\* Every well-formed tree of n nodes whose nodes below the document carry
\* labels of the alphabet.
TreesOver(alphabet, n) ==
    {doc \in {[parent |-> p,
               label |-> [i \in 1 .. n |-> IF i = 1 THEN DocumentLabel ELSE l[i]]] :
                  p \in Trees(n), l \in [2 .. n -> alphabet]} :
        WellFormed(doc)}

TextT == Txt("NavigableString", <<"T">>)
TextPadded == Txt("NavigableString", <<" ", "T", "\n">>)
TextBlank == Txt("NavigableString", <<"\n", " ">>)
TextD == Txt("NavigableString", <<"D">>)
TextE == Txt("NavigableString", <<"E">>)
TextAmp == Txt("NavigableString", <<"&">>)
CommentC == Txt("Comment", <<"c">>)
ScriptS == Txt("Script", <<"s">>)

Url == <<"u">>
OtherUrl == <<"v">>
LocalPath == <<"l">>

\* Generic containers, paragraphs, inline emphasis, scripts and comments.
StructureAlphabet ==
    {Elem("div", <<>>), Elem("p", <<>>), Elem("strong", <<>>), Elem("script", <<>>),
     TextT, CommentC, ScriptS}

\* Anchors and images with and without their attributes.
LinkAlphabet ==
    {Elem("div", <<>>), TextT, TextBlank,
     Elem("a", <<>>), Elem("a", [k \in {"href"} |-> Url]),
     Elem("img", <<>>),
     Elem("img", [k \in {"src"} |-> Url]),
     Elem("img", [k \in {"src", "alt"} |-> IF k = "src" THEN OtherUrl ELSE <<"x">>]),
     Elem("img", [k \in {"src", "alt"} |-> IF k = "src" THEN Url ELSE <<>>])}

RECURSIVE NestedParents(_)
\* k nested <div>, each holding one <p> with one string and then the next <div>
NestedParents(k) ==
    IF k = 0 THEN <<0>>
    ELSE LET up == NestedParents(k - 1)
             d == Len(up) + 1
         IN up \o << (IF k = 1 THEN 1 ELSE d - 3), d, d + 1 >>

\* <div><p>T</p><div><p>T</p>...</div></div>, k levels deep
NestedDoc(k) ==
    [parent |-> NestedParents(k),
     label |-> [i \in 1 .. 3 * k + 1 |->
                   IF i = 1 THEN DocumentLabel
                   ELSE IF i % 3 = 2 THEN Elem("div", <<>>)
                   ELSE IF i % 3 = 0 THEN Elem("p", <<>>)
                   ELSE TextT]]

\* <ul><li>t1</li></ul><xl><li>t2</li></xl> for xl one of ul, ol
TwoListsDoc(second, t1, t2) ==
    [parent |-> <<0, 1, 2, 3, 1, 5, 6>>,
     label |-> <<DocumentLabel, Elem("ul", <<>>), Elem("li", <<>>), t1,
                 Elem(second, <<>>), Elem("li", <<>>), t2>>]

ListTexts == {TextD, TextE, Txt("NavigableString", <<" ", "D">>)}

\* The tree with one more node, a last child of node up.
AddNode(doc, up, label) ==
    [parent |-> Append(doc.parent, up), label |-> Append(doc.label, label)]

RECURSIVE AddCells(_, _, _)
\* The tree with the cells of one row added below the <tr> node tr: every
\* cell is a <th> or <td> holding one string.
AddCells(doc, tr, cells) ==
    IF cells = <<>> THEN doc
    ELSE LET withCell == AddNode(doc, tr, Elem(Head(cells).name, <<>>))
         IN AddCells(AddNode(withCell, Len(withCell.parent), Head(cells).text),
                     tr, Tail(cells))

RECURSIVE AddRows(_, _, _)
\* The tree with one <tr> per row added below the <table> node table.
AddRows(doc, table, rows) ==
    IF rows = <<>> THEN doc
    ELSE LET withRow == AddNode(doc, table, Elem("tr", <<>>))
         IN AddRows(AddCells(withRow, Len(withRow.parent), Head(rows)), table, Tail(rows))

\* <table><tr>...</tr>...</table>, then the text T
TableDoc(rows) ==
    AddNode(AddRows([parent |-> <<0, 1>>, label |-> <<DocumentLabel, Elem("table", <<>>)>>],
                    2, rows),
            1, TextT)

\* The rows of the enumerated tables: no cell, one long header cell, two
\* cells (one of them padded), one short cell.
RowChoices ==
    { <<>>,
      << [name |-> "th", text |-> Txt("NavigableString", <<"N", "a", "m", "e">>)] >>,
      << [name |-> "td", text |-> TextD], [name |-> "td", text |-> TextPadded] >>,
      << [name |-> "th", text |-> TextE] >> }

TableDocs ==
    {TableDoc(rows) : rows \in UNION {[1 .. k -> RowChoices] : k \in 1 .. MaxRows}}

RECURSIVE AddItems(_, _, _, _)
\* The tree with items i .. k added below the list node list: <li>D</li> for
\* odd i, <li>E</li> for even i.
AddItems(doc, list, i, k) ==
    IF i > k THEN doc
    ELSE LET withItem == AddNode(doc, list, Elem("li", <<>>))
         IN AddItems(AddNode(withItem, Len(withItem.parent), IF i % 2 = 1 THEN TextD ELSE TextE),
                     list, i + 1, k)

\* <outer><li>D<inner><li>E</li></inner></li><li>E</li>...</outer>T: a list
\* of k items whose first item holds a nested list of one item.
NestedListDoc(outer, inner, k) ==
    LET first == [parent |-> <<0, 1, 2, 3, 3, 5, 6>>,
                  label |-> <<DocumentLabel, Elem(outer, <<>>), Elem("li", <<>>), TextD,
                              Elem(inner, <<>>), Elem("li", <<>>), TextE>>]
    IN AddNode(AddItems(first, 2, 2, k), 1, TextT)

\* <outer><li>D</li><li>E</li>...</outer>T: a flat list of k items.
FlatListDoc(outer, k) ==
    AddNode(AddItems([parent |-> <<0, 1>>, label |-> <<DocumentLabel, Elem(outer, <<>>)>>],
                     2, 1, k),
            1, TextT)

ListDocs ==
    {NestedListDoc(outer, inner, k) :
        outer \in {"ul", "ol"}, inner \in {"ul", "ol"}, k \in 1 .. MaxItems}
    \cup {FlatListDoc(outer, k) : outer \in {"ul", "ol"}, k \in 0 .. MaxItems}

\* <first>A</first><second>B</second>: two headings, or a heading next to
\* a paragraph
HeadingDoc(first, second) ==
    [parent |-> <<0, 1, 2, 1, 4>>,
     label |-> <<DocumentLabel, Elem(first, <<>>), Txt("NavigableString", <<"A">>),
                 Elem(second, <<>>), Txt("NavigableString", <<"B">>)>>]

\* Texts of several lines, some of which start like a Markdown heading.
MarkerTexts ==
    {Txt("NavigableString", <<"a", "\n", "#", " ", "b">>),
     Txt("NavigableString", <<"a", "\n", "#", " ", "b", "\n", "#", "#", " ", "c">>),
     Txt("NavigableString", <<"a", "\n", "#", " ", "\n", "#", " ", "b">>)}

\* <div>text</div>
TextDoc(text) ==
    [parent |-> <<0, 1, 2>>, label |-> <<DocumentLabel, Elem("div", <<>>), text>>]

HeadingDocs ==
    {HeadingDoc(first, second) : first \in {"h1", "h2", "h6", "p"}, second \in {"h1", "h2", "h6"}}
    \cup {TextDoc(text) : text \in MarkerTexts}

\* The elements the choice of main_content looks at, and two that carry the
\* same attributes on another tag; <p> is never a candidate.
RootAlphabet ==
    {Elem("main", <<>>), Elem("article", <<>>), Elem("body", <<>>), Elem("p", <<>>)}
    \cup {Elem(name, [k \in {"id"} |-> <<"c", "o", "n", "t", "e", "n", "t">>]) :
              name \in {"div", "section"}}
    \cup {Elem(name, [k \in {"class"} |-> << <<"c", "o", "n", "t", "e", "n", "t">> >>]) :
              name \in {"div", "section"}}
    \cup {Elem(name, [k \in {"role"} |-> <<"m", "a", "i", "n">>]) :
              name \in {"div", "section"}}

\* <c1>D</c1><c2>E</c2>
RootDoc(c1, c2) ==
    [parent |-> <<0, 1, 2, 1, 4>>, label |-> <<DocumentLabel, c1, TextD, c2, TextE>>]

RootDocs == {RootDoc(c1, c2) : c1 \in RootAlphabet, c2 \in RootAlphabet}

Docs ==
    UNION {TreesOver(StructureAlphabet, n) : n \in 1 .. MaxNodes}
    \cup RootDocs
    \cup HeadingDocs
    \cup ListDocs
    \cup TableDocs
    \cup UNION {TreesOver(LinkAlphabet, n) : n \in 1 .. MaxNodes}
    \cup {NestedDoc(k) : k \in 1 .. MaxNest}
    \cup {TwoListsDoc(x, t1, t2) : x \in {"ul", "ol"}, t1 \in ListTexts, t2 \in ListTexts}

\* The image maps a formatter is constructed with: URL -> local path.
ImageMaps == {<<>>, [k \in {Url} |-> LocalPath]}

\* ------------------------------------------------------------ state
VARIABLES
    html,           \* the tree parsed from the html argument, EmptyHtml for ""
    image_map,      \* self.image_map of the formatter
    pc,             \* "start", "loop" (inside the while), "done"
    main_content,   \* the root chosen by _html_to_markdown, 0 before
    stack,          \* the work list of (element, depth) pairs
    output_buffer,  \* markdown_output: the fragments appended so far
    popped,         \* history: the elements taken off the stack, in order
    result,         \* the string _html_to_markdown returns
    scraped_data,   \* the dict given to format(): title, url, content, images
    include_images, \* self.include_images of the formatter
    outputs,        \* history: per call of format() its input and outcome
    raw_name,       \* the name given to _sanitize_tag_name / _sanitize_attr_name
    sanitize_calls, \* history: the sanitizer called and its successive results
    parsed,         \* history: the call of parse_with_fallback and what it returned
    passes,         \* history: the cleaning passes of the scraper applied to the tree
    session,        \* history: the conversions made one after the other in one process
    cli             \* one run of cli.main: its configuration, handler and outputs

vars == <<html, image_map, pc, main_content, stack, output_buffer, popped, result,
          scraped_data, include_images, outputs, raw_name, sanitize_calls, parsed, passes,
          session, cli>>

\* The state of the helper functions called on their own.
helper_vars == <<raw_name, sanitize_calls, parsed, passes, session, cli>>

\* cli.main is not running.
NoRun == [position |-> "none"]

\* No helper function has been called.
NoHelperCall ==
    /\ raw_name = <<>>
    /\ sanitize_calls = [sanitizer |-> "none", results |-> <<>>]
    /\ parsed = <<>>
    /\ passes = <<>>
    /\ session = <<>>
    /\ cli = NoRun

\* What a call of format() reads, and the history of the calls.
format_vars == <<scraped_data, include_images, outputs>>

\* What the empty string parses to, a soup without children; no other
\* enumerated tree is that small, so html = EmptyHtml stands for `not html`.
EmptyHtml == [parent |-> <<0>>, label |-> <<DocumentLabel>>]

\* The title of the scraped page.
Title == <<"t">>

\* scraped_data["images"]: the scraper lists one image, without alt text.
Images == << [url |-> Url, alt |-> <<>>] >>

\* The dict the scraper hands to format().  kind is the Python class of
\* content ("None", "str" or "BeautifulSoup"); content is the tree content
\* parses to or is, EmptyHtml for None and for "".
ScrapedData(kind, content) ==
    [title |-> Title, url |-> Url, kind |-> kind, content |-> content, images |-> Images]

\* soup.find(name, {key: value}): the first descendant Tag of that name whose
\* attribute matches; a class matches by any one of its values or by the
\* whole attribute.
FindByAttr(doc, name, key, value) ==
    LET hits == {i \in NodesOf(doc) \ {1} :
                    /\ doc.label[i].kind = "Tag"
                    /\ doc.label[i].name = name
                    /\ key \in DOMAIN doc.label[i].attrs
                    /\ IF key = "class"
                       THEN \/ \E k \in 1 .. Len(doc.label[i].attrs[key]) :
                                  doc.label[i].attrs[key][k] = value
                            \/ Join(<<" ">>, doc.label[i].attrs[key]) = value
                       ELSE doc.label[i].attrs[key] = value}
    IN IF hits = {} THEN 0 ELSE CHOOSE i \in hits : \A j \in hits : i <= j

ContentValue == <<"c", "o", "n", "t", "e", "n", "t">>
MainValue == <<"m", "a", "i", "n">>

\* The chain of `or` that picks main_content (a Tag is always true), with the
\* soup itself as the last resort.
MainContent(doc) ==
    LET candidates == << Find(doc, 1, {"main"}),
                         Find(doc, 1, {"article"}),
                         FindByAttr(doc, "div", "id", ContentValue),
                         FindByAttr(doc, "div", "class", ContentValue),
                         FindByAttr(doc, "div", "role", MainValue),
                         Find(doc, 1, {"body"}) >>
        hits == {k \in 1 .. Len(candidates) : candidates[k] # 0}
    IN IF hits = {} THEN 1
       ELSE candidates[CHOOSE k \in hits : \A j \in hits : k <= j]

Init ==
    /\ html \in Docs \cup {EmptyHtml}
    /\ image_map \in ImageMaps
    /\ pc = "start"
    /\ main_content = 0
    /\ stack = <<>>
    /\ output_buffer = <<>>
    /\ popped = <<>>
    /\ result = <<>>
    /\ scraped_data = ScrapedData("str", html)
    /\ include_images = FALSE
    /\ outputs = <<>>
    /\ NoHelperCall

\* _html_to_markdown up to the call of _process_element_iteratively: "" is
\* returned for an empty html, else the stack is seeded with (root, 0).
HtmlToMarkdown ==
    /\ pc = "start"
    /\ IF html = EmptyHtml
       THEN /\ pc' = "done"
            /\ result' = <<>>
            /\ UNCHANGED <<main_content, stack>>
       ELSE /\ pc' = "loop"
            /\ main_content' = MainContent(html)
            /\ stack' = << <<MainContent(html), 0>> >>
            /\ UNCHANGED result
    /\ UNCHANGED <<html, image_map, output_buffer, popped>>
    /\ UNCHANGED <<format_vars, helper_vars>>

\* One iteration for a NavigableString (of any class: name is None): its
\* stripped string is appended unless empty.
PopString ==
    /\ pc = "loop"
    /\ stack # <<>>
    /\ LET element == Head(stack)[1]
       IN /\ IsString(html, element)
          /\ output_buffer' = IterationBuffer(html, stack, output_buffer)
          /\ popped' = Append(popped, element)
    /\ stack' = IterationStack(html, stack)
    /\ UNCHANGED <<html, image_map, pc, main_content, result>>
    /\ UNCHANGED <<format_vars, helper_vars>>

\* One iteration for a Tag: the if/elif chain appends its rendering, then its
\* children go to the front of the stack unless the name is one of the five.
PopElement ==
    /\ pc = "loop"
    /\ stack # <<>>
    /\ LET element == Head(stack)[1]
       IN /\ ~IsString(html, element)
          /\ output_buffer' = IterationBuffer(html, stack, output_buffer)
          /\ stack' = IterationStack(html, stack)
          /\ popped' = Append(popped, element)
    /\ UNCHANGED <<html, image_map, pc, main_content, result>>
    /\ UNCHANGED <<format_vars, helper_vars>>

\* The while loop ends on an empty stack; _html_to_markdown joins and cleans
\* the buffer and returns.
Finish ==
    /\ pc = "loop"
    /\ stack = <<>>
    /\ result' = CleanOutput(output_buffer)
    /\ pc' = "done"
    /\ UNCHANGED <<html, image_map, main_content, stack, output_buffer, popped>>
    /\ UNCHANGED <<format_vars, helper_vars>>

Next == HtmlToMarkdown \/ PopString \/ PopElement \/ Finish

Spec == Init /\ [][Next]_vars


\* ------------------------------------------------------------ XML dialect
\* The characters of a tag or attribute name.
NameChars(name) ==
    CASE name = "[document]" -> <<"[", "d", "o", "c", "u", "m", "e", "n", "t", "]">>
      [] name = "div" -> <<"d", "i", "v">>
      [] name = "p" -> <<"p">>
      [] name = "strong" -> <<"s", "t", "r", "o", "n", "g">>
      [] name = "script" -> <<"s", "c", "r", "i", "p", "t">>
      [] name = "style" -> <<"s", "t", "y", "l", "e">>
      [] name = "a" -> <<"a">>
      [] name = "img" -> <<"i", "m", "g">>
      [] name = "ul" -> <<"u", "l">>
      [] name = "ol" -> <<"o", "l">>
      [] name = "li" -> <<"l", "i">>
      [] name = "span" -> <<"s", "p", "a", "n">>
      [] name = "pre" -> <<"p", "r", "e">>
      [] name = "code" -> <<"c", "o", "d", "e">>
      [] name = "id" -> <<"i", "d">>
      [] name = "class" -> <<"c", "l", "a", "s", "s">>
      [] name = "href" -> <<"h", "r", "e", "f">>
      [] name = "src" -> <<"s", "r", "c">>
      [] name = "alt" -> <<"a", "l", "t">>
      [] name = "role" -> <<"r", "o", "l", "e">>
      [] name = "class_attr" -> <<"c", "l", "a", "s", "s", "_", "a", "t", "t", "r">>
      [] name = "body" -> <<"b", "o", "d", "y">>
      [] name = "content" -> <<"c", "o", "n", "t", "e", "n", "t">>
      [] name = "metadata" -> <<"m", "e", "t", "a", "d", "a", "t", "a">>
      [] name = "title" -> <<"t", "i", "t", "l", "e">>
      [] name = "url" -> <<"u", "r", "l">>
      [] name = "error" -> <<"e", "r", "r", "o", "r">>
      [] name = "main" -> <<"m", "a", "i", "n">>
      [] name = "article" -> <<"a", "r", "t", "i", "c", "l", "e">>
      [] name = "h1" -> <<"h", "1">>
      [] name = "h2" -> <<"h", "2">>
      [] name = "br" -> <<"b", "r">>
      [] name = "button" -> <<"b", "u", "t", "t", "o", "n">>
      [] name = "hr" -> <<"h", "r">>
      [] name = "table" -> <<"t", "a", "b", "l", "e">>
      [] name = "tr" -> <<"t", "r">>
      [] name = "td" -> <<"t", "d">>
      [] name = "th" -> <<"t", "h">>
      [] name = "blockquote" -> <<"b", "l", "o", "c", "k", "q", "u", "o", "t", "e">>
      [] name = "noscript" -> <<"n", "o", "s", "c", "r", "i", "p", "t">>
      [] name = "iframe" -> <<"i", "f", "r", "a", "m", "e">>
      [] name = "em" -> <<"e", "m">>
      [] name = "b" -> <<"b">>
      [] name = "i" -> <<"i">>

Letters ==
    {"a", "b", "c", "d", "e", "f", "g", "h", "i", "j", "k", "l", "m", "n", "o", "p", "q",
     "r", "s", "t", "u", "v", "w", "x", "y", "z", "A", "B", "C", "D", "E", "F", "G", "H",
     "I", "J", "K", "L", "M", "N", "O", "P", "Q", "R", "S", "T", "U", "V", "W", "X", "Y", "Z"}
Digits == {"0", "1", "2", "3", "4", "5", "6", "7", "8", "9"}

\* re.sub(r'[^a-zA-Z0-9_-]', '_', name)
ReplaceInvalid(chars) ==
    [i \in 1 .. Len(chars) |->
        IF chars[i] \in Letters \cup Digits \cup {"_", "-"} THEN chars[i] ELSE "_"]

\* Mutant of SanitizeTagName: no prefix for a bad first character.
SanitizeTagNameNoPrefix(chars) ==
    IF chars = <<>> THEN <<"t", "a", "g">> ELSE ReplaceInvalid(chars)

\* XMLFormatter._sanitize_tag_name
SanitizeTagName(chars) ==
    IF chars = <<>> THEN <<"t", "a", "g">>
    ELSE LET sanitized == ReplaceInvalid(chars)
         IN IF sanitized[1] \in Letters \cup {"_"} THEN sanitized
            ELSE <<"t", "a", "g", "_">> \o sanitized

\* XMLFormatter._sanitize_attr_name
SanitizeAttrName(chars) ==
    IF chars = NameChars("class") THEN <<"c", "l", "a", "s", "s", "_", "a", "t", "t", "r">>
    ELSE IF chars = <<"f", "o", "r">> THEN <<"f", "o", "r", "_", "a", "t", "t", "r">>
    ELSE LET sanitized == ReplaceInvalid(chars)
         IN IF sanitized # <<>> /\ sanitized[1] \in Letters \cup {"_"} THEN sanitized
            ELSE <<"a", "t", "t", "r", "_">> \o sanitized

\* The entity html.escape(s, quote=True) writes for one character.
HtmlEscapeChar(c) ==
    CASE c = "&" -> <<"&", "a", "m", "p", ";">>
      [] c = "<" -> <<"&", "l", "t", ";">>
      [] c = ">" -> <<"&", "g", "t", ";">>
      [] c = "\"" -> <<"&", "q", "u", "o", "t", ";">>
      [] c = "'" -> <<"&", "#", "x", "2", "7", ";">>
      [] OTHER -> <<c>>

RECURSIVE HtmlEscape(_)
\* html.escape(s): _escape_text and _escape_attr both call it with quote=True
HtmlEscape(s) == IF s = <<>> THEN <<>> ELSE HtmlEscapeChar(Head(s)) \o HtmlEscape(Tail(s))

\* _escape_text / _escape_attr: "" for a false value, else html.escape
EscapeText(s) == IF s = <<>> THEN <<>> ELSE HtmlEscape(s)

\* self.skip_tags
SkipTags ==
    {"script", "style", "noscript", "iframe", "svg", "canvas", "meta", "link", "input",
     "button", "form", "template"}

\* The keys of self.tag_mapping (every key maps to itself).
TagMapping ==
    {"h1", "h2", "h3", "h4", "h5", "h6", "article", "section", "main", "div", "aside",
     "header", "footer", "nav", "p", "blockquote", "pre", "code", "ul", "ol", "li",
     "table", "thead", "tbody", "tfoot", "tr", "th", "td", "a", "span", "strong", "em",
     "b", "i", "u", "mark", "img", "figure", "figcaption", "picture", "video", "audio",
     "hr", "br"}

\* self.important_attrs, a set
ImportantAttrs == {"id", "class", "href", "src", "alt", "title", "aria-label", "role"}

\* The important attributes that the enumerated documents carry.
ModelledAttrs == ImportantAttrs \cap {"id", "class", "href"}

\* The orders in which a Python process may iterate the set important_attrs
\* (str hashes are randomized per process), restricted to ModelledAttrs: an
\* attribute no element carries fails the test `attr in element.attrs`.
IterationOrders ==
    {o \in [1 .. Cardinality(ModelledAttrs) -> ModelledAttrs] :
        \A i, j \in DOMAIN o : i # j => o[i] # o[j]}

\* value as written: a list (class) joined by spaces, else the string
AttrValue(v, isList) == IF isList THEN Join(<<" ">>, v) ELSE v

RECURSIVE ImportantAttrib(_, _, _, _)
\* The loop `for attr in self.important_attrs` of _process_element from
\* position k of the iteration order on: the attribute is renamed by
\* _sanitize_attr_name BEFORE element.attrs is indexed with it, so 'class'
\* looks up 'class_attr'.  [raised, attrib]: KeyError, or the pairs set.
ImportantAttrib(attrs, order, k, acc) ==
    IF k > Len(order) THEN [raised |-> FALSE, attrib |-> acc]
    ELSE IF order[k] \notin DOMAIN attrs THEN ImportantAttrib(attrs, order, k + 1, acc)
    ELSE LET attr == SanitizeAttrName(NameChars(order[k]))
             keys == {a \in DOMAIN attrs : NameChars(a) = attr}
         IN IF keys = {} THEN [raised |-> TRUE, attrib |-> acc]
            ELSE LET key == CHOOSE a \in keys : TRUE
                     value == AttrValue(attrs[key], key \in {"class", "class_attr"})
                 IN ImportantAttrib(attrs, order, k + 1,
                                    Append(acc, <<attr, EscapeText(value)>>))

\* An xml.etree Element; text <<>> stands for None.
XmlElement(tag, attrib, text, children) ==
    [tag |-> tag, attrib |-> attrib, text |-> text, children |-> children]

RECURSIVE XmlProcessElement(_, _, _)
\* _process_element(element, parent_xml) for a Tag n, with default options:
\* [raised, elems, depth] where elems holds the element added to the parent,
\* if any, and depth is the largest number of calls of _process_element
\* active at once.  The function calls itself for every child: a string
\* child adds to the text of the new element and returns, a Tag child
\* recurses.
XmlProcessElement(doc, n, order) ==
    LET name == doc.label[n].name
    IN IF name \in SkipTags THEN [raised |-> FALSE, elems |-> <<>>, depth |-> 1]
       ELSE IF name \notin {"img", "br", "hr"} /\ GetTextStrip(doc, n) = <<>>
       THEN [raised |-> FALSE, elems |-> <<>>, depth |-> 1]
       ELSE LET tag_name == IF name \in TagMapping THEN NameChars(name)
                            ELSE SanitizeTagName(NameChars(name))
                at == ImportantAttrib(doc.label[n].attrs, order, 1, <<>>)
                c == Children(doc, n)
                F[i \in 0 .. Len(c)] ==
                    IF i = 0
                    THEN [raised |-> at.raised, text |-> <<>>, kids |-> <<>>, depth |-> 1]
                    ELSE IF F[i - 1].raised THEN F[i - 1]
                    ELSE IF IsString(doc, c[i])
                    THEN LET t == Strip(doc.label[c[i]].string)
                         IN [F[i - 1] EXCEPT
                                !.text = IF t = <<>> THEN @
                                         ELSE IF @ = <<>> THEN EscapeText(t)
                                         ELSE @ \o <<" ">> \o EscapeText(t),
                                !.depth = IF @ < 2 THEN 2 ELSE @]
                    ELSE LET sub == XmlProcessElement(doc, c[i], order)
                         IN [F[i - 1] EXCEPT !.raised = sub.raised,
                                             !.kids = @ \o sub.elems,
                                             !.depth = IF @ < 1 + sub.depth
                                                       THEN 1 + sub.depth ELSE @]
                done == F[Len(c)]
            IN [raised |-> done.raised,
                elems |-> << XmlElement(tag_name, at.attrib, done.text, done.kids) >>,
                depth |-> done.depth]

RECURSIVE NormalizeSpaceFrom(_, _)
\* re.sub(r'\s+', ' ', s): every run of whitespace becomes one space
\* (inRun: the previous character was whitespace)
NormalizeSpaceFrom(s, inRun) ==
    IF s = <<>> THEN <<>>
    ELSE IF Head(s) \in Whitespace
         THEN (IF inRun THEN <<>> ELSE <<" ">>) \o NormalizeSpaceFrom(Tail(s), TRUE)
         ELSE <<Head(s)>> \o NormalizeSpaceFrom(Tail(s), FALSE)

\* re.sub(r'\s+', ' ', s).strip()
NormalizeSpace(s) == Strip(NormalizeSpaceFrom(s, FALSE))

RECURSIVE CleanXmlStructureUncleanedTest(_)
\* Mutant of CleanXmlStructure: a child is tested for emptiness as it was
\* before its own cleaning.
CleanXmlStructureUncleanedTest(e) ==
    LET cleaned == [i \in 1 .. Len(e.children) |-> CleanXmlStructureUncleanedTest(e.children[i])]
        keep(c) == \/ c.tag \in {NameChars("img"), NameChars("br"), NameChars("hr")}
                   \/ c.text # <<>>
                   \/ c.children # <<>>
        F[i \in 0 .. Len(cleaned)] ==
            IF i = 0 THEN <<>>
            ELSE IF keep(e.children[i]) THEN Append(F[i - 1], cleaned[i]) ELSE F[i - 1]
    IN [e EXCEPT !.children = F[Len(cleaned)], !.text = NormalizeSpace(e.text)]

RECURSIVE CleanXmlStructure(_)
\* _clean_xml_structure(element): children are cleaned first, then those with
\* no text and no children (img, br, hr excepted) are removed, then the text
\* is whitespace-normalized.  tail is never set by _process_element.
CleanXmlStructure(e) ==
    LET cleaned == [i \in 1 .. Len(e.children) |-> CleanXmlStructure(e.children[i])]
        keep(c) == \/ c.tag \in {NameChars("img"), NameChars("br"), NameChars("hr")}
                   \/ c.text # <<>>
                   \/ c.children # <<>>
        F[i \in 0 .. Len(cleaned)] ==
            IF i = 0 THEN <<>>
            ELSE IF keep(cleaned[i]) THEN Append(F[i - 1], cleaned[i]) ELSE F[i - 1]
    IN [e EXCEPT !.children = F[Len(cleaned)], !.text = NormalizeSpace(e.text)]

\* minidom's _write_data: the entities written for & < > and the double quote
WriteDataChar(c) ==
    CASE c = "&" -> <<"&", "a", "m", "p", ";">>
      [] c = "<" -> <<"&", "l", "t", ";">>
      [] c = ">" -> <<"&", "g", "t", ";">>
      [] c = "\"" -> <<"&", "q", "u", "o", "t", ";">>
      [] OTHER -> <<c>>

RECURSIVE WriteData(_)
WriteData(s) == IF s = <<>> THEN <<>> ELSE WriteDataChar(Head(s)) \o WriteData(Tail(s))

RECURSIVE WriteXml(_, _)
\* minidom Element.writexml with addindent two spaces and newl "\n", on the
\* document parsed back from ET.tostring: the text of an element is its first
\* child node, the attributes keep the order in which they were set.
WriteXml(e, indent) ==
    LET attrs == [i \in 1 .. Len(e.attrib) |->
                    <<" ">> \o e.attrib[i][1] \o <<"=", "\"">>
                    \o WriteData(e.attrib[i][2]) \o <<"\"">>]
        open == indent \o <<"<">> \o e.tag \o Join(<<>>, attrs)
        close == <<"<", "/">> \o e.tag \o <<">", "\n">>
        kids == [i \in 1 .. Len(e.children) |-> WriteXml(e.children[i], indent \o <<" ", " ">>)]
    IN IF e.text = <<>> /\ e.children = <<>> THEN open \o <<"/", ">", "\n">>
       ELSE IF e.children = <<>> THEN open \o <<">">> \o WriteData(e.text) \o close
       ELSE open \o <<">", "\n">>
            \o (IF e.text # <<>>
                THEN indent \o <<" ", " ">> \o WriteData(e.text) \o <<"\n">> ELSE <<>>)
            \o Join(<<>>, kids) \o indent \o close

XmlDeclaration == <<"<", "?", "x", "m", "l", " ", "v", "e", "r", "s", "i", "o", "n", "=", "\"", "1", ".", "0", "\"", " ", "?", ">">>

\* The test `content is None`.
ContentIsNone(data) == data.kind = "None"

\* `not scraped_data["content"]`: None and "" are false, a non-empty str and
\* a BeautifulSoup object are true.
ContentIsFalse(data) == data.kind = "None" \/ (data.kind = "str" /\ data.content = EmptyHtml)

\* The string XMLFormatter.format returns for a false content.
XmlErrorString(data) ==
    XmlDeclaration \o <<"\n">> \o <<"<", "e", "r", "r", "o", "r", " ", "u", "r", "l", "=", "\"">> \o EscapeText(data.url)
    \o <<"\"", ">">> \o EscapeText(data.title) \o <<"<", "/", "e", "r", "r", "o", "r", ">">>

\* No body element was built.
NoBody == XmlElement(<<>>, <<>>, <<>>, <<>>)

\* An element with a text and no attribute or child.
XmlLeaf(tag, text) == XmlElement(tag, <<>>, EscapeText(text), <<>>)

\* The images element of XMLFormatter.format: per image a path (the local
\* file of image_map) or a url, then the alt text.
XmlImages(images, imap) ==
    XmlElement(<<"i", "m", "a", "g", "e", "s">>, <<>>, <<>>,
        [i \in 1 .. Len(images) |->
            XmlElement(<<"i", "m", "a", "g", "e">>, <<>>, <<>>,
                << IF images[i].url \in DOMAIN imap
                   THEN XmlLeaf(<<"p", "a", "t", "h">>, imap[images[i].url])
                   ELSE XmlLeaf(NameChars("url"), images[i].url),
                   XmlLeaf(NameChars("alt"), images[i].alt) >>)])

\* XMLFormatter.format with default options (simplify_structure, no
\* preserve_attrs): the error string for a false content; else the tree
\* content(metadata(title, url), body, [images]) is built, cleaned and
\* pretty-printed.  _process_element and _clean_xml_structure run outside the
\* try block, so their exception leaves format.  The serialized tree of the
\* enumerated documents is well-formed (names are sanitized, texts escaped),
\* so minidom parses it back.  [raised, value, body, call_depth], body
\* being the element of that name once cleaned and call_depth the depth
\* _process_element recursed to.
XmlFormat(data, order, include, imap) ==
    IF ContentIsFalse(data)
    THEN [raised |-> FALSE, value |-> XmlErrorString(data), body |-> NoBody, call_depth |-> 0]
    ELSE LET built == XmlProcessElement(data.content, 1, order)
             body == CleanXmlStructure(XmlElement(NameChars("body"), <<>>, <<>>, built.elems))
             metadata == XmlElement(NameChars("metadata"), <<>>, <<>>,
                                    << XmlLeaf(NameChars("title"), data.title),
                                       XmlLeaf(NameChars("url"), data.url) >>)
             images == IF include /\ data.images # <<>>
                       THEN << XmlImages(data.images, imap) >> ELSE <<>>
             root == XmlElement(NameChars("content"), <<>>, <<>>, <<metadata, body>> \o images)
         IN IF built.raised
            THEN [raised |-> TRUE, value |-> <<>>, body |-> NoBody, call_depth |-> built.depth]
            ELSE [raised |-> FALSE,
                  value |-> XmlDeclaration \o <<"\n">> \o WriteXml(root, <<>>),
                  body |-> body, call_depth |-> built.depth]

\* ------------------------------------------------------------ HTML dialect
\* self.block_elements
BlockElements ==
    {"div", "p", "h1", "h2", "h3", "h4", "h5", "h6", "ul", "ol", "li", "table", "tr", "td",
     "th", "article", "section", "header", "footer", "nav", "aside", "main", "figure",
     "figcaption", "form", "pre", "blockquote", "hr"}

\* self.self_closing
SelfClosing ==
    {"img", "br", "hr", "meta", "input", "link", "area", "base", "col", "embed", "param",
     "source", "track", "wbr"}

\* The order in which the enumerated documents write the attributes of a tag:
\* element.attrs is a dict, iterated in the order of the source text.
AttrSourceOrder == <<"id", "class", "class_attr", "href", "src", "alt", "role", "onclick">>

\* node.attrs.items(): the names of the attributes of n in source order
AttrsItems(attrs) ==
    LET F[i \in 0 .. Len(AttrSourceOrder)] ==
            IF i = 0 THEN <<>>
            ELSE IF AttrSourceOrder[i] \in DOMAIN attrs
                 THEN Append(F[i - 1], AttrSourceOrder[i]) ELSE F[i - 1]
    IN F[Len(AttrSourceOrder)]

\* What an f-string writes for a list of str (the class attribute): its repr.
ListRepr(v) ==
    <<"[">> \o Join(<<",", " ">>, [i \in 1 .. Len(v) |-> <<"'">> \o v[i] \o <<"'">>]) \o <<"]">>

\* ' '.join([f'{k}="{v}"' for k, v in node.attrs.items()])
AttrsText(attrs) ==
    LET keys == AttrsItems(attrs)
    IN Join(<<" ">>, [i \in 1 .. Len(keys) |->
                NameChars(keys[i]) \o <<"=", "\"">>
                \o (IF keys[i] = "class" THEN ListRepr(attrs[keys[i]]) ELSE attrs[keys[i]])
                \o <<"\"">>])

RECURSIVE TagString(_, _)
\* node.string: a string node is its own string; a Tag with exactly one child
\* has the string of that child; <<>> stands for None.
TagString(doc, n) ==
    IF IsString(doc, n) THEN doc.label[n].string
    ELSE IF Len(Children(doc, n)) = 1 THEN TagString(doc, Children(doc, n)[1])
    ELSE <<>>

RECURSIVE FormatNode(_, _, _, _)
\* _format_node(node, output, indent_level, in_pre): the lines it appends.
\* A text node has name None whatever its class (str, Comment, Script).
FormatNode(doc, n, indent_level, in_pre) ==
    LET label == doc.label[n]
        indent == Repeat(" ", indent_level * 2)
        kids(level, pre) ==
            Join(<<>>, [i \in 1 .. Len(Children(doc, n)) |->
                          FormatNode(doc, Children(doc, n)[i], level, pre)])
    IN IF IsString(doc, n)
       THEN IF Strip(label.string) = <<>> THEN <<>>
            ELSE IF in_pre THEN << label.string >>
            ELSE << indent \o NormalizeSpace(label.string) >>
       ELSE IF label.name \in {"script", "style", "noscript", "iframe"} THEN <<>>
       ELSE LET current_in_pre == in_pre \/ label.name = "pre"
                attrs == AttrsText(label.attrs)
                start_tag == indent \o <<"<">> \o NameChars(label.name)
                             \o (IF attrs # <<>> THEN <<" ">> \o attrs ELSE <<>>) \o <<">">>
                end_tag == <<"<", "/">> \o NameChars(label.name) \o <<">">>
                nested == <<start_tag>> \o kids(indent_level + 1, current_in_pre)
                          \o <<indent \o end_tag>>
            IN IF label.name \in SelfClosing THEN <<start_tag>>
               ELSE IF label.name \in BlockElements /\ ~current_in_pre THEN nested
               ELSE IF ~current_in_pre
               THEN IF Len(Children(doc, n)) = 1 /\ TagString(doc, n) # <<>>
                    THEN << start_tag \o NormalizeSpace(TagString(doc, n)) \o end_tag >>
                    ELSE nested
               ELSE <<start_tag>>
                    \o (IF TagString(doc, n) # <<>> THEN << TagString(doc, n) >>
                        ELSE kids(0, current_in_pre))
                    \o <<end_tag>>

RECURSIVE FormatNodeDepth(_, _, _)
\* The largest number of calls of _format_node active at once when it is
\* called on n: it calls itself for every child of a block element, of an
\* inline element that is not just one string, and of an element in pre mode
\* that has no single string.
FormatNodeDepth(doc, n, in_pre) ==
    LET label == doc.label[n]
        current_in_pre == in_pre \/ label.name = "pre"
        c == Children(doc, n)
        F[i \in 0 .. Len(c)] ==
            IF i = 0 THEN 1
            ELSE LET sub == 1 + FormatNodeDepth(doc, c[i], current_in_pre)
                 IN IF F[i - 1] < sub THEN sub ELSE F[i - 1]
    IN IF IsString(doc, n) THEN 1
       ELSE IF label.name \in {"script", "style", "noscript", "iframe"} THEN 1
       ELSE IF label.name \in SelfClosing THEN 1
       ELSE IF label.name \in BlockElements /\ ~current_in_pre THEN F[Len(c)]
       ELSE IF ~current_in_pre
       THEN IF Len(c) = 1 /\ TagString(doc, n) # <<>> THEN 1 ELSE F[Len(c)]
       ELSE IF TagString(doc, n) # <<>> THEN 1 ELSE F[Len(c)]

\* _format_html(soup): the root is chosen by the same chain of `or` as in
\* _html_to_markdown, and the lines are joined by newlines.
FormatHtml(doc) == Join(<<"\n">>, FormatNode(doc, MainContent(doc), 0, FALSE))

\* The selector of the cleaning step of HTMLFormatter.format
DecomposedNames == {"script", "style", "iframe", "noscript", "object", "embed"}
AllowedAttrs == {"href", "src", "alt", "title", "id", "class"}

\* The tree after the cleaning step: every selected element is decomposed
\* with its subtree, and every remaining tag keeps only its allowed
\* attributes.  The remaining nodes keep their document order.
CleanSoup(doc) ==
    LET gone == {n \in NodesOf(doc) :
                    \E a \in NodesOf(doc) :
                        /\ a = n \/ IsAncestor(doc, a, n)
                        /\ doc.label[a].kind = "Tag"
                        /\ doc.label[a].name \in DecomposedNames}
        rank(n) == Cardinality({m \in NodesOf(doc) \ gone : m <= n})
        node(k) == CHOOSE n \in NodesOf(doc) \ gone : rank(n) = k
        strip(label) ==
            IF label.kind # "Tag" THEN label
            ELSE [label EXCEPT !.attrs =
                    [k \in DOMAIN label.attrs \cap AllowedAttrs |-> label.attrs[k]]]
        count == Cardinality(NodesOf(doc) \ gone)
    IN [parent |-> [k \in 1 .. count |->
                      IF doc.parent[node(k)] = 0 THEN 0 ELSE rank(doc.parent[node(k)])],
        label |-> [k \in 1 .. count |-> strip(doc.label[node(k)])]]

\* The string HTMLFormatter.format returns for a false content.
HtmlErrorString(data) ==
    <<"<", "!", "-", "-", " ", "E", "r", "r", "o", "r", " ", "f", "e", "t", "c", "h",
      "i", "n", "g", " ", "c", "o", "n", "t", "e", "n", "t", " ", "f", "r", "o", "m",
      " ">> \o data.url
    \o <<" ", "-", "-", ">", "\n", "<", "h", "1", ">">> \o data.title \o <<"<", "/", "h", "1", ">">>

\* The style element written when add_css is set.
CssBlock ==
    <<" ", " ", "<", "s", "t", "y", "l", "e", ">", "\n">>
    \o <<" ", " ", " ", " ", "b", "o", "d", "y", " ", "{", " ", "f", "o", "n", "t", "-",
      "f", "a", "m", "i", "l", "y", ":", " ", "-", "a", "p", "p", "l", "e", "-", "s",
      "y", "s", "t", "e", "m", ",", " ", "B", "l", "i", "n", "k", "M", "a", "c", "S",
      "y", "s", "t", "e", "m", "F", "o", "n", "t", ",", " ", "\"", "S", "e", "g", "o",
      "e", " ", "U", "I", "\"", ",", " ", "R", "o", "b", "o", "t", "o", ",", " ", "H",
      "e", "l", "v", "e", "t", "i", "c", "a", ",", " ", "A", "r", "i", "a", "l", ",",
      " ", "s", "a", "n", "s", "-", "s", "e", "r", "i", "f", ";", " ", "l", "i", "n",
      "e", "-", "h", "e", "i", "g", "h", "t", ":", " ", "1", ".", "6", ";", " ", "c",
      "o", "l", "o", "r", ":", " ", "#", "3", "3", "3", ";", " ", "m", "a", "x", "-",
      "w", "i", "d", "t", "h", ":", " ", "8", "0", "0", "p", "x", ";", " ", "m", "a",
      "r", "g", "i", "n", ":", " ", "0", " ", "a", "u", "t", "o", ";", " ", "p", "a",
      "d", "d", "i", "n", "g", ":", " ", "2", "0", "p", "x", ";", " ", "}", "\n">>
    \o <<" ", " ", " ", " ", "i", "m", "g", " ", "{", " ", "m", "a", "x", "-", "w", "i",
      "d", "t", "h", ":", " ", "1", "0", "0", "%", ";", " ", "h", "e", "i", "g", "h",
      "t", ":", " ", "a", "u", "t", "o", ";", " ", "}", "\n">>
    \o <<" ", " ", " ", " ", "a", " ", "{", " ", "c", "o", "l", "o", "r", ":", " ", "#",
      "0", "3", "6", "6", "d", "6", ";", " ", "t", "e", "x", "t", "-", "d", "e", "c",
      "o", "r", "a", "t", "i", "o", "n", ":", " ", "n", "o", "n", "e", ";", " ", "}",
      "\n">>
    \o <<" ", " ", " ", " ", "a", ":", "h", "o", "v", "e", "r", " ", "{", " ", "t", "e",
      "x", "t", "-", "d", "e", "c", "o", "r", "a", "t", "i", "o", "n", ":", " ", "u",
      "n", "d", "e", "r", "l", "i", "n", "e", ";", " ", "}", "\n">>
    \o <<" ", " ", " ", " ", "h", "1", ",", " ", "h", "2", ",", " ", "h", "3", ",", " ",
      "h", "4", ",", " ", "h", "5", ",", " ", "h", "6", " ", "{", " ", "m", "a", "r",
      "g", "i", "n", "-", "t", "o", "p", ":", " ", "1", ".", "5", "e", "m", ";", " ",
      "m", "a", "r", "g", "i", "n", "-", "b", "o", "t", "t", "o", "m", ":", " ", "0",
      ".", "5", "e", "m", ";", " ", "}", "\n">>
    \o <<" ", " ", " ", " ", "p", ",", " ", "u", "l", ",", " ", "o", "l", " ", "{", " ",
      "m", "a", "r", "g", "i", "n", "-", "b", "o", "t", "t", "o", "m", ":", " ", "1",
      "e", "m", ";", " ", "}", "\n">>
    \o <<" ", " ", " ", " ", "c", "o", "d", "e", " ", "{", " ", "b", "a", "c", "k", "g",
      "r", "o", "u", "n", "d", "-", "c", "o", "l", "o", "r", ":", " ", "#", "f", "6",
      "f", "8", "f", "a", ";", " ", "p", "a", "d", "d", "i", "n", "g", ":", " ", "0",
      ".", "2", "e", "m", " ", "0", ".", "4", "e", "m", ";", " ", "b", "o", "r", "d",
      "e", "r", "-", "r", "a", "d", "i", "u", "s", ":", " ", "3", "p", "x", ";", " ",
      "}", "\n">>
    \o <<" ", " ", " ", " ", "p", "r", "e", " ", "{", " ", "b", "a", "c", "k", "g", "r",
      "o", "u", "n", "d", "-", "c", "o", "l", "o", "r", ":", " ", "#", "f", "6", "f",
      "8", "f", "a", ";", " ", "p", "a", "d", "d", "i", "n", "g", ":", " ", "1", "6",
      "p", "x", ";", " ", "o", "v", "e", "r", "f", "l", "o", "w", ":", " ", "a", "u",
      "t", "o", ";", " ", "b", "o", "r", "d", "e", "r", "-", "r", "a", "d", "i", "u",
      "s", ":", " ", "3", "p", "x", ";", " ", "}", "\n">>
    \o <<" ", " ", " ", " ", "b", "l", "o", "c", "k", "q", "u", "o", "t", "e", " ", "{",
      " ", "m", "a", "r", "g", "i", "n", ":", " ", "0", ";", " ", "p", "a", "d", "d",
      "i", "n", "g", "-", "l", "e", "f", "t", ":", " ", "1", "e", "m", ";", " ", "c",
      "o", "l", "o", "r", ":", " ", "#", "6", "a", "7", "3", "7", "d", ";", " ", "b",
      "o", "r", "d", "e", "r", "-", "l", "e", "f", "t", ":", " ", "0", ".", "2", "5",
      "e", "m", " ", "s", "o", "l", "i", "d", " ", "#", "d", "f", "e", "2", "e", "5",
      ";", " ", "}", "\n">>
    \o <<" ", " ", " ", " ", "t", "a", "b", "l", "e", " ", "{", " ", "b", "o", "r", "d",
      "e", "r", "-", "c", "o", "l", "l", "a", "p", "s", "e", ":", " ", "c", "o", "l",
      "l", "a", "p", "s", "e", ";", " ", "w", "i", "d", "t", "h", ":", " ", "1", "0",
      "0", "%", ";", " ", "}", "\n">>
    \o <<" ", " ", " ", " ", "t", "a", "b", "l", "e", ",", " ", "t", "h", ",", " ", "t",
      "d", " ", "{", " ", "b", "o", "r", "d", "e", "r", ":", " ", "1", "p", "x", " ",
      "s", "o", "l", "i", "d", " ", "#", "d", "f", "e", "2", "e", "5", ";", " ", "}",
      "\n">>
    \o <<" ", " ", " ", " ", "t", "h", ",", " ", "t", "d", " ", "{", " ", "p", "a", "d",
      "d", "i", "n", "g", ":", " ", "8", "p", "x", " ", "1", "2", "p", "x", ";", " ",
      "}", "\n">>
    \o <<" ", " ", " ", " ", ".", "s", "o", "u", "r", "c", "e", "-", "l", "i", "n", "k",
      " ", "{", " ", "m", "a", "r", "g", "i", "n", "-", "b", "o", "t", "t", "o", "m",
      ":", " ", "2", "0", "p", "x", ";", " ", "f", "o", "n", "t", "-", "s", "t", "y",
      "l", "e", ":", " ", "i", "t", "a", "l", "i", "c", ";", " ", "}", "\n">>
    \o <<" ", " ", "<", "/", "s", "t", "y", "l", "e", ">", "\n">>

\* The head of the boilerplate page up to the opening of body.
BoilerplateHead(data, add_css) ==
    <<"<", "!", "D", "O", "C", "T", "Y", "P", "E", " ", "h", "t", "m", "l", ">", "\n",
      "<", "h", "t", "m", "l", " ", "l", "a", "n", "g", "=", "\"", "e", "n", "\"", ">",
      "\n", "<", "h", "e", "a", "d", ">", "\n">>
    \o <<" ", " ", "<", "m", "e", "t", "a", " ", "c", "h", "a", "r", "s", "e", "t", "=",
      "\"", "U", "T", "F", "-", "8", "\"", ">", "\n">>
    \o <<" ", " ", "<", "m", "e", "t", "a", " ", "n", "a", "m", "e", "=", "\"", "v", "i",
      "e", "w", "p", "o", "r", "t", "\"", " ", "c", "o", "n", "t", "e", "n", "t", "=",
      "\"", "w", "i", "d", "t", "h", "=", "d", "e", "v", "i", "c", "e", "-", "w", "i",
      "d", "t", "h", ",", " ", "i", "n", "i", "t", "i", "a", "l", "-", "s", "c", "a",
      "l", "e", "=", "1", ".", "0", "\"", ">", "\n">>
    \o <<" ", " ", "<", "t", "i", "t", "l", "e", ">">> \o HtmlEscape(data.title) \o <<"<", "/", "t", "i", "t", "l", "e", ">", "\n">>
    \o <<" ", " ", "<", "m", "e", "t", "a", " ", "n", "a", "m", "e", "=", "\"", "d", "e",
      "s", "c", "r", "i", "p", "t", "i", "o", "n", "\"", " ", "c", "o", "n", "t", "e",
      "n", "t", "=", "\"">>
    \o HtmlEscape(<<"C", "o", "n", "t", "e", "n", "t", " ", "f", "r", "o", "m", " ">> \o data.title) \o <<"\"", ">", "\n">>
    \o (IF add_css THEN CssBlock ELSE <<>>)
    \o <<"<", "/", "h", "e", "a", "d", ">", "\n", "<", "b", "o", "d", "y", ">", "\n">>

\* The title and source link at the top of the boilerplate body.
BoilerplateTitle(data) ==
    <<" ", " ", "<", "h", "1", ">">> \o HtmlEscape(data.title) \o <<"<", "/", "h", "1", ">", "\n">>
    \o <<" ", " ", "<", "p", " ", "c", "l", "a", "s", "s", "=", "\"", "s", "o", "u", "r",
      "c", "e", "-", "l", "i", "n", "k", "\"", ">", "S", "o", "u", "r", "c", "e", ":",
      " ", "<", "a", " ", "h", "r", "e", "f", "=", "\"">> \o HtmlEscape(data.url)
    \o <<"\"", " ", "t", "a", "r", "g", "e", "t", "=", "\"", "_", "b", "l", "a", "n", "k",
      "\"", ">">> \o HtmlEscape(data.url) \o <<"<", "/", "a", ">", "<", "/", "p", ">", "\n">>

\* The source an image is written with: the local file of image_map if any.
ImageSource(img, imap) == IF img.url \in DOMAIN imap THEN imap[img.url] ELSE img.url

\* The Images section of the boilerplate page (images carry no dimensions).
BoilerplateImages(images, imap) ==
    <<"\n", " ", " ", "<", "h", "2", ">", "I", "m", "a", "g", "e", "s", "<", "/", "h",
      "2", ">", "\n", " ", " ", "<", "d", "i", "v", " ", "c", "l", "a", "s", "s", "=",
      "\"", "i", "m", "a", "g", "e", "s", "\"", ">", "\n">>
    \o Join(<<>>, [i \in 1 .. Len(images) |->
            <<" ", " ", " ", " ", "<", "d", "i", "v", " ", "c", "l", "a", "s", "s",
              "=", "\"", "i", "m", "a", "g", "e", "-", "c", "o", "n", "t", "a", "i",
              "n", "e", "r", "\"", ">", "\n">>
            \o <<" ", " ", " ", " ", " ", " ", "<", "i", "m", "g", " ", "s", "r", "c", "=", "\"">> \o HtmlEscape(ImageSource(images[i], imap))
            \o <<"\"", " ", "a", "l", "t", "=", "\"">> \o HtmlEscape(images[i].alt) \o <<"\"", ">", "\n">>
            \o <<" ", " ", " ", " ", " ", " ", "<", "p", " ", "c", "l", "a", "s", "s", "=", "\"",
      "i", "m", "a", "g", "e", "-", "c", "a", "p", "t", "i", "o", "n", "\"", ">">>
            \o HtmlEscape(images[i].alt) \o <<"<", "/", "p", ">", "\n">>
            \o <<" ", " ", " ", " ", "<", "/", "d", "i", "v", ">", "\n">>])
    \o <<" ", " ", "<", "/", "d", "i", "v", ">", "\n">>

\* The Images section without boilerplate.
RawImages(images, imap) ==
    <<"\n", "\n", "<", "h", "2", ">", "I", "m", "a", "g", "e", "s", "<", "/", "h", "2",
      ">", "\n">>
    \o Join(<<>>, [i \in 1 .. Len(images) |->
            <<"<", "i", "m", "g", " ", "s", "r", "c", "=", "\"">> \o HtmlEscape(ImageSource(images[i], imap))
            \o <<"\"", " ", "a", "l", "t", "=", "\"">> \o HtmlEscape(images[i].alt) \o <<"\"", " ", "/", ">", "\n">>])

\* The part of HTMLFormatter.format that follows the cleaning step, soup
\* being the cleaned tree.
HtmlFormatSoup(data, soup, format_type, include, imap) ==
    LET clean_content == FormatHtml(soup)
        images == include /\ data.images # <<>>
        page == IF format_type = "html"
                THEN BoilerplateHead(data, TRUE) \o BoilerplateTitle(data) \o clean_content
                     \o (IF images THEN BoilerplateImages(data.images, imap) ELSE <<>>)
                     \o <<"<", "/", "b", "o", "d", "y", ">", "\n", "<", "/", "h", "t", "m", "l", ">">>
                ELSE <<"<", "!", "-", "-", " ", "T", "i", "t", "l", "e", ":", " ">> \o data.title \o <<" ", "-", "-", ">", "\n">>
                     \o <<"<", "!", "-", "-", " ", "S", "o", "u", "r", "c", "e", ":", " ">> \o data.url \o <<" ", "-", "-", ">", "\n", "\n">>
                     \o clean_content
                     \o (IF images THEN RawImages(data.images, imap) ELSE <<>>)
    IN [raised |-> FALSE, value |-> page,
        content |-> IF data.kind = "BeautifulSoup" THEN soup ELSE data.content,
        call_depth |-> FormatNodeDepth(soup, MainContent(soup), FALSE),
        lines |-> FormatNode(soup, MainContent(soup), 0, FALSE)]

\* HTMLFormatter.format as get_formatter configures it: clean_html is set,
\* "html" adds boilerplate and CSS, "raw" adds neither.  A str content is
\* parsed into a fresh tree; a BeautifulSoup content is cleaned in place, so
\* `content` is the tree the caller's object holds afterwards, and
\* call_depth the depth _format_node recursed to, lines the list
\* _format_node filled.  [raised, value, content, call_depth, lines].
HtmlFormat(data, format_type, include, imap) ==
    IF ContentIsFalse(data)
    THEN [raised |-> FALSE, value |-> HtmlErrorString(data), content |-> data.content,
          call_depth |-> 0, lines |-> <<>>]
    ELSE CHOOSE r \in {HtmlFormatSoup(data, soup, format_type, include, imap) :
                          soup \in {CleanSoup(data.content)}} : TRUE

\* ------------------------------------------------------------ Markdown dialect
\* The string MarkdownFormatter.format returns for a false content.
MarkdownErrorString(data) ==
    <<"#", " ", "E", "r", "r", "o", "r", ":", " ">> \o data.title
    \o <<"\n", "\n", "F", "a", "i", "l", "e", "d", " ", "t", "o", " ", "f", "e", "t", "c",
      "h", " ", "c", "o", "n", "t", "e", "n", "t", " ", "f", "r", "o", "m", " ">> \o data.url

RECURSIVE EscapeQuotes(_)
\* s.replace('"', '\\"')
EscapeQuotes(s) ==
    IF s = <<>> THEN <<>>
    ELSE (IF Head(s) = "\"" THEN <<"\\", "\"">> ELSE <<Head(s)>>) \o EscapeQuotes(Tail(s))

\* _html_to_markdown(html) as a function of its argument: "" for a false
\* argument.  A BeautifulSoup argument makes the BeautifulSoup constructor
\* fail (it takes the object for a file, and its `read` attribute is the
\* missing tag of that name, None): the except clause returns the fixed
\* message.
HtmlToMarkdownValue(kind, doc) ==
    IF kind = "None" \/ (kind = "str" /\ doc = EmptyHtml) THEN <<>>
    ELSE IF kind = "BeautifulSoup" THEN <<"E", "r", "r", "o", "r", " ", "p", "a", "r", "s", "i", "n", "g", " ", "c", "o",
      "n", "t", "e", "n", "t", ".">>
    ELSE CleanOutput(ProcessElementIteratively(doc, << <<MainContent(doc), 0>> >>,
                                               NewMarkdownOutput))

\* MarkdownFormatter.format with default options (frontmatter and source
\* link; scraped_data carries no date, og_metadata or content_html).
\* call_depth is 1 when _process_element_iteratively ran: it never calls
\* itself.  [raised, value, call_depth].
MarkdownFormat(data, include, imap) ==
    IF ContentIsFalse(data)
    THEN [raised |-> FALSE, value |-> MarkdownErrorString(data), call_depth |-> 0]
    ELSE LET frontmatter ==
                 << <<"-", "-", "-">>,
                    <<"t", "i", "t", "l", "e", ":", " ", "\"">> \o EscapeQuotes(data.title) \o <<"\"">>,
                    <<"s", "o", "u", "r", "c", "e", ":", " ", "\"">> \o data.url \o <<"\"">>,
                    <<"d", "a", "t", "e", ":", " ", "\"", "\"">>,
                    <<"-", "-", "-", "\n">> >>
             title == << <<"#", " ">> \o data.title \o <<"\n">> >>
             source == << <<"S", "o", "u", "r", "c", "e", ":", " ", "[">> \o data.url \o <<"]", "(">> \o data.url
                          \o <<")", "\n">> >>
             body == << HtmlToMarkdownValue(data.kind, data.content) >>
             images ==
                 IF include /\ data.images # <<>>
                 THEN << <<"\n", "#", "#", " ", "I", "m", "a", "g", "e", "s", "\n">> >>
                      \o [i \in 1 .. Len(data.images) |->
                            <<"!", "[">>
                            \o (IF data.images[i].alt # <<>> THEN data.images[i].alt
                                ELSE ImageAltDefault)
                            \o <<"]", "(">> \o ImageSource(data.images[i], imap) \o <<")">>]
                 ELSE <<>>
         IN [raised |-> FALSE,
             value |-> Join(<<"\n">>, frontmatter \o title \o source \o body \o images),
             call_depth |-> IF data.kind = "str" THEN 1 ELSE 0]

\* ------------------------------------------------------------ format()
\* The trees given to format(): every well-formed tree of at most
\* MaxFormatNodes nodes over tags with and without the important attributes.
FormatAlphabet ==
    {Elem("div", <<>>),
     Elem("p", [k \in {"class"} |-> << <<"x">> >>]),
     Elem("a", [k \in {"id", "href"} |-> IF k = "id" THEN <<"i">> ELSE Url]),
     Elem("span", [k \in {"onclick"} |-> <<"j">>]),
     Elem("pre", <<>>),
     Elem("script", <<>>),
     TextT, TextAmp, ScriptS}

FormatDocs == UNION {TreesOver(FormatAlphabet, n) : n \in 2 .. MaxFormatNodes}

RECURSIVE AddChain(_, _, _)
\* The tree with a chain of k nested <div> added below node up, the
\* innermost holding <button>T</button>.
AddChain(doc, up, k) ==
    IF k = 0 THEN AddNode(AddNode(doc, up, Elem("button", <<>>)), Len(doc.parent) + 1, TextT)
    ELSE AddChain(AddNode(doc, up, Elem("div", <<>>)), Len(doc.parent) + 1, k - 1)

\* <div><div>...<button>T</button>...</div></div> with k <div> in all; with
\* tail, the outermost <div> also holds <br> and the text T.
ChainDoc(k, tail) ==
    LET chain == AddChain([parent |-> <<0>>, label |-> <<DocumentLabel>>], 1, k)
    IN IF tail THEN AddNode(AddNode(chain, 2, Elem("br", <<>>)), 2, TextT) ELSE chain

ChainDocs == {ChainDoc(k, tail) : k \in 1 .. MaxNest, tail \in BOOLEAN}

\* <div><pre>first<span>second</span></pre>after</div>
PreDoc(first, second, after) ==
    [parent |-> <<0, 1, 2, 3, 3, 5, 2>>,
     label |-> <<DocumentLabel, Elem("div", <<>>), Elem("pre", <<>>), first,
                 Elem("span", <<>>), second, after>>]

\* <div><pre>text</pre>after</div>
PreOnlyDoc(text, after) ==
    [parent |-> <<0, 1, 2, 3, 2>>,
     label |-> <<DocumentLabel, Elem("div", <<>>), Elem("pre", <<>>), text, after>>]

\* <pre>text</pre>
PreAloneDoc(text) ==
    [parent |-> <<0, 1, 2>>, label |-> <<DocumentLabel, Elem("pre", <<>>), text>>]

PreDocs ==
    {PreAloneDoc(TextPadded)} \cup
    {PreDoc(first, second, TextPadded) :
        first \in {TextT, TextPadded, TextBlank}, second \in {TextPadded, TextBlank}}
    \cup {PreOnlyDoc(text, TextPadded) : text \in {TextT, TextPadded, TextBlank}}

\* <div>first<p>D</p>after</div>
MixedDoc(first, after) ==
    [parent |-> <<0, 1, 2, 2, 4, 2>>,
     label |-> <<DocumentLabel, Elem("div", <<>>), first, Elem("p", <<>>), TextD, after>>]

MixedDocs == {MixedDoc(first, after) : first \in {TextT, TextBlank}, after \in {TextE, TextBlank}}

\* The inputs of format(): no content, an empty string, markup, or its tree.
FormatInputs ==
    {ScrapedData("None", EmptyHtml), ScrapedData("str", EmptyHtml)}
    \cup {ScrapedData(kind, doc) :
            kind \in {"str", "BeautifulSoup"}, doc \in FormatDocs \cup ChainDocs \cup PreDocs \cup MixedDocs}

\* The CLI downloads images, and so fills image_map, only when images are
\* included.
InitFormat ==
    /\ scraped_data \in FormatInputs
    /\ include_images \in BOOLEAN
    /\ image_map \in (IF include_images THEN ImageMaps ELSE {<<>>})
    /\ outputs = <<>>
    /\ html = scraped_data.content
    /\ pc = "start"
    /\ main_content = 0
    /\ stack = <<>>
    /\ output_buffer = <<>>
    /\ popped = <<>>
    /\ result = <<>>
    /\ NoHelperCall

\* The record of one call of format(); body is the cleaned body element of
\* the XML tree, call_depth the largest number of calls of the walk function
\* of the dialect that were active at once, lines the list of lines the
\* HTML walk appended.
Outcome(format_type, r) ==
    [format_type |-> format_type, input |-> scraped_data, include_images |-> include_images,
     image_map |-> image_map, raised |-> r.raised, value |-> r.value,
     body |-> IF "body" \in DOMAIN r THEN r.body ELSE NoBody,
     call_depth |-> r.call_depth,
     lines |-> IF "lines" \in DOMAIN r THEN r.lines ELSE <<>>]

\* get_formatter("markdown", ...).format(scraped_data)
FormatMarkdown ==
    /\ Len(outputs) < MaxCalls
    /\ \E r \in {MarkdownFormat(scraped_data, include_images, image_map)} :
          outputs' = Append(outputs, Outcome("markdown", r))
    /\ UNCHANGED <<html, image_map, pc, main_content, stack, output_buffer, popped, result,
                   scraped_data, include_images, helper_vars>>

\* get_formatter("xml", ...).format(scraped_data).  Each conversion is a run
\* of the program, and a run iterates the set important_attrs in the order
\* its string hashing gives.
FormatXml ==
    /\ Len(outputs) < MaxCalls
    /\ \E order \in IterationOrders :
          \E r \in {XmlFormat(scraped_data, order, include_images, image_map)} :
              outputs' = Append(outputs, Outcome("xml", r))
    /\ UNCHANGED <<html, image_map, pc, main_content, stack, output_buffer, popped, result,
                   scraped_data, include_images, helper_vars>>

\* get_formatter("raw" or "html", ...).format(scraped_data): a BeautifulSoup
\* content is cleaned in place.
FormatHtmlOrRaw ==
    /\ Len(outputs) < MaxCalls
    /\ \E format_type \in {"raw", "html"} :
          \E r \in {HtmlFormat(scraped_data, format_type, include_images, image_map)} :
             /\ outputs' = Append(outputs, Outcome(format_type, r))
             /\ scraped_data' = [scraped_data EXCEPT !.content = r.content]
    /\ UNCHANGED <<html, image_map, pc, main_content, stack, output_buffer, popped, result,
                   include_images, helper_vars>>

NextFormat == FormatMarkdown \/ FormatXml \/ FormatHtmlOrRaw

SpecFormat == InitFormat /\ [][NextFormat]_vars

\* ------------------------------------------------------------ the sanitizers
\* The characters of the enumerated names: a letter, a digit, the hyphen, the
\* underscore and two characters no XML name may hold.
NameAlphabet == {"a", "1", "-", "_", "[", ":"}

\* The names given to the sanitizers: every string of up to MaxNameLen
\* characters (the empty one included), the two attribute names with a
\* replacement of their own, and two longer names.
SanitizerInputs ==
    UNION {[1 .. n -> NameAlphabet] : n \in 0 .. MaxNameLen}
    \cup {NameChars("class"), <<"f", "o", "r">>, NameChars("class_attr"),
          NameChars("[document]"), <<"1", "w", "e", "i", "r", "d", "-", "t", "a", "g">>}

InitSanitize ==
    /\ raw_name \in SanitizerInputs
    /\ sanitize_calls = [sanitizer |-> "none", results |-> <<>>]
    /\ parsed = <<>>
    /\ passes = <<>>
    /\ session = <<>>
    /\ cli = NoRun
    /\ html = EmptyHtml
    /\ image_map = <<>>
    /\ pc = "start"
    /\ main_content = 0
    /\ stack = <<>>
    /\ output_buffer = <<>>
    /\ popped = <<>>
    /\ result = <<>>
    /\ scraped_data = ScrapedData("None", EmptyHtml)
    /\ include_images = FALSE
    /\ outputs = <<>>

\* The argument of the next call: the name, then the result of the last call.
SanitizerArgument ==
    IF sanitize_calls.results = <<>> THEN raw_name
    ELSE sanitize_calls.results[Len(sanitize_calls.results)]

\* _sanitize_tag_name(name), then again on what it returned
CallSanitizeTagName ==
    /\ sanitize_calls.sanitizer \in {"none", "tag"}
    /\ Len(sanitize_calls.results) < MaxSanitize
    /\ sanitize_calls' = [sanitizer |-> "tag",
                     results |-> Append(sanitize_calls.results, SanitizeTagName(SanitizerArgument))]
    /\ UNCHANGED <<html, image_map, pc, main_content, stack, output_buffer, popped, result,
                   format_vars, raw_name, parsed, passes, session, cli>>

\* _sanitize_attr_name(name), then again on what it returned
CallSanitizeAttrName ==
    /\ sanitize_calls.sanitizer \in {"none", "attr"}
    /\ Len(sanitize_calls.results) < MaxSanitize
    /\ sanitize_calls' = [sanitizer |-> "attr",
                     results |-> Append(sanitize_calls.results, SanitizeAttrName(SanitizerArgument))]
    /\ UNCHANGED <<html, image_map, pc, main_content, stack, output_buffer, popped, result,
                   format_vars, raw_name, parsed, passes, session, cli>>

NextSanitize == CallSanitizeTagName \/ CallSanitizeAttrName

SpecSanitize == InitSanitize /\ [][NextSanitize]_vars

\* ------------------------------------------------------------ the fallback extractor
\* src/contxt/sources/web/extractor.py

\* tag.decompose() for every Tag with one of the names: the tree without
\* these elements and their subtrees, the other nodes in document order.
Decompose(doc, names) ==
    LET gone == {n \in NodesOf(doc) :
                    \E a \in NodesOf(doc) :
                        /\ a = n \/ IsAncestor(doc, a, n)
                        /\ doc.label[a].kind = "Tag"
                        /\ doc.label[a].name \in names}
        rank(n) == Cardinality({m \in NodesOf(doc) \ gone : m <= n})
        node(k) == CHOOSE n \in NodesOf(doc) \ gone : rank(n) = k
        count == Cardinality(NodesOf(doc) \ gone)
    IN [parent |-> [k \in 1 .. count |->
                      IF doc.parent[node(k)] = 0 THEN 0 ELSE rank(doc.parent[node(k)])],
        label |-> [k \in 1 .. count |-> doc.label[node(k)]]]

\* tags_to_extract
TagsToExtract == {"h1", "h2", "h3", "h4", "h5", "h6", "span", "p", "li"}

\* main_content.find_all(tags_to_extract) without the <p> whose parent is a
\* <li>
ExtractedElements(doc, n) ==
    SelectSeq(FindAll(doc, n, TagsToExtract),
              LAMBDA el : ~(doc.label[el].name = "p" /\ doc.label[doc.parent[el]].name = "li"))

RECURSIVE AfterFirst(_, _)
\* What follows the first occurrence of sub in s (s holds one).
AfterFirst(s, sub) ==
    IF StartsWith(s, sub) THEN SubSeq(s, Len(sub) + 1, Len(s)) ELSE AfterFirst(Tail(s), sub)

\* re.sub(r'^<svg.*?</svg>\s*', '', text, flags=re.DOTALL)
RemoveSvgPrefix(text) ==
    IF StartsWith(text, <<"<", "s", "v", "g">>)
       /\ Contains(SubSeq(text, 5, Len(text)), <<"<", "/", "s", "v", "g", ">">>)
    THEN LStrip(AfterFirst(SubSeq(text, 5, Len(text)), <<"<", "/", "s", "v", "g", ">">>))
    ELSE text

\* The text of an element as both helpers clean it.
CleanedText(doc, el) == NormalizeSpace(RemoveSvgPrefix(GetTextStrip(doc, el)))

\* seen_list_items = set(): the set parse_with_fallback creates for the call
\* and hands to the helper.
NewSeenSet == {}

\* process_tagged_format(elements, seen_list_items, output): the string it
\* returns.  Spans are buffered until another element or the end, a list
\* item is written once per text, another element when its text is not empty.
ProcessTaggedFormat(doc, elements, output) ==
    LET line(name, text) == NameChars(name) \o <<":", " ">> \o text
        flush(st) ==
            IF st.span_buffer # <<>>
            THEN Append(st.output_lines, line("span", Join(<<" ">>, st.span_buffer)))
            ELSE st.output_lines
        F[i \in 0 .. Len(elements)] ==
            IF i = 0 THEN [output_lines |-> <<>>, span_buffer |-> <<>>, seen |-> NewSeenSet]
            ELSE LET st == F[i - 1]
                     name == doc.label[elements[i]].name
                     text == CleanedText(doc, elements[i])
                 IN IF name = "span"
                    THEN [st EXCEPT !.span_buffer = Append(@, text)]
                    ELSE IF name = "li"
                    THEN [output_lines |-> IF text \notin st.seen
                                           THEN Append(flush(st), line(name, text))
                                           ELSE flush(st),
                          span_buffer |-> <<>>, seen |-> st.seen \cup {text}]
                    ELSE [output_lines |-> IF text # <<>> THEN Append(flush(st), line(name, text))
                                           ELSE flush(st),
                          span_buffer |-> <<>>, seen |-> st.seen]
    IN output \o Join(<<"\n">>, flush(F[Len(elements)])) \o <<"\n", "\n", "-", "-", "-", "\n">>

\* convert_to_markdown(tag_name, text) for the extracted tag names
ConvertToMarkdown(tag_name, text) ==
    IF tag_name \in HeadingNames
    THEN Repeat("#", HeadingLevel(tag_name)) \o <<" ">> \o text \o <<"\n", "\n">>
    ELSE IF tag_name = "p" THEN text \o <<"\n", "\n">>
    ELSE IF tag_name = "li" THEN <<"-", " ">> \o text \o <<"\n">>
    ELSE text

\* process_markdown_format(elements, seen_list_items, output): the string it
\* returns.  A run of spans gives one text, the stripped texts joined by a
\* space; the other elements as in the tagged format.
ProcessMarkdownFormat(doc, elements, output) ==
    LET flush(st) ==
            IF st.span_buffer # <<>>
            THEN st.processed_texts \o ConvertToMarkdown("span", Join(<<" ">>, st.span_buffer))
            ELSE st.processed_texts
        F[i \in 0 .. Len(elements)] ==
            IF i = 0 THEN [processed_texts |-> <<>>, span_buffer |-> <<>>, seen |-> NewSeenSet]
            ELSE LET st == F[i - 1]
                     name == doc.label[elements[i]].name
                     text == CleanedText(doc, elements[i])
                 IN IF name = "span"
                    THEN [st EXCEPT !.span_buffer = Append(@, GetTextStrip(doc, elements[i]))]
                    ELSE IF name = "li"
                    THEN [processed_texts |-> IF text \notin st.seen
                                              THEN flush(st) \o ConvertToMarkdown(name, text)
                                              ELSE flush(st),
                          span_buffer |-> <<>>, seen |-> st.seen \cup {text}]
                    ELSE [processed_texts |-> IF text # <<>>
                                              THEN flush(st) \o ConvertToMarkdown(name, text)
                                              ELSE flush(st),
                          span_buffer |-> <<>>, seen |-> st.seen]
    IN output \o flush(F[Len(elements)]) \o <<"\n", "-", "-", "-", "\n">>

\* The output parse_with_fallback has built when it calls the helper: the
\* URL line, the heading of the content and, without a <main>, the notice.
\* (The enumerated pages have no OpenGraph <meta>.)
ExtractHeader(url, format_type, has_main) ==
    IF format_type = "markdown"
    THEN <<"#", "#", "#", " ", "[">> \o url \o <<"]", "(">> \o url \o <<")", "\n", "\n">>
         \o <<"\n", "#", " ", "C", "o", "n", "t", "e", "n", "t", "\n", "\n">>
         \o (IF has_main THEN <<>> ELSE <<"N", "o", " ", "<", "m", "a", "i", "n", ">", " ", "t", "a", "g", " ", "f",
          "o", "u", "n", "d", ".", " ", "E", "x", "t", "r", "a", "c", "t", "i", "n",
          "g", " ", "f", "r", "o", "m", " ", "e", "n", "t", "i", "r", "e", " ", "b",
          "o", "d", "y", ".">> \o <<"\n", "\n">>)
    ELSE <<"U", "R", "L", ":", " ">> \o url \o <<"\n", "\n">>
         \o <<"\n", "C", "o", "n", "t", "e", "n", "t", ":", "\n", "\n">>
         \o (IF has_main THEN <<>> ELSE <<"N", "o", " ", "<", "m", "a", "i", "n", ">", " ", "t", "a", "g", " ", "f",
          "o", "u", "n", "d", ".", " ", "E", "x", "t", "r", "a", "c", "t", "i", "n",
          "g", " ", "f", "r", "o", "m", " ", "e", "n", "t", "i", "r", "e", " ", "b",
          "o", "d", "y", ".">> \o <<"\n">>)

\* parse_with_fallback(html_content, url, format_type): [raised, value,
\* processed].  The helper is called for its return value, which is not
\* assigned: str is immutable, so `output` is still the header when it is
\* returned; processed is the string the helper returned.  Without <main>
\* and <body>, main_content (root) is None and find_all raises AttributeError.
ParseWithFallback(doc, url, format_type) ==
    LET soup == Decompose(doc, {"nav", "footer"})
        main == Find(soup, 1, {"main"})
        root == IF main # 0 THEN main ELSE Find(soup, 1, {"body"})
        output == ExtractHeader(url, format_type, main # 0)
    IN IF root = 0 THEN [raised |-> TRUE, value |-> <<>>, processed |-> <<>>]
       ELSE LET elements == ExtractedElements(soup, root)
            IN [raised |-> FALSE, value |-> output,
                processed |-> IF format_type = "markdown"
                              THEN ProcessMarkdownFormat(soup, elements, output)
                              ELSE ProcessTaggedFormat(soup, elements, output)]

\* A text with whitespace inside.
TextInner == Txt("NavigableString", <<"T", "\n", " ", "D">>)

\* The elements of the enumerated pages, each holding one string.
ExtractAlphabet ==
    {<<"h2", TextT>>, <<"p", TextInner>>, <<"p", TextBlank>>, <<"li", TextT>>,
     <<"li", TextD>>, <<"span", TextT>>, <<"span", TextD>>}

RECURSIVE AddExtracted(_, _, _)
\* The tree with one element per item added below node up.
AddExtracted(doc, up, items) ==
    IF items = <<>> THEN doc
    ELSE AddExtracted(AddNode(AddNode(doc, up, Elem(Head(items)[1], <<>>)),
                              Len(doc.parent) + 1, Head(items)[2]),
                      up, Tail(items))

\* <container>items</container>
ExtractDoc(container, items) ==
    AddExtracted(AddNode([parent |-> <<0>>, label |-> <<DocumentLabel>>], 1,
                         Elem(container, <<>>)), 2, items)

\* <main><ul><li><p>T</p></li></ul><nav><p>D</p></nav><footer>E</footer></main>
ListParagraphDoc ==
    [parent |-> <<0, 1, 2, 3, 4, 5, 2, 7, 8, 2, 10>>,
     label |-> <<DocumentLabel, Elem("main", <<>>), Elem("ul", <<>>), Elem("li", <<>>),
                 Elem("p", <<>>), TextT, Elem("nav", <<>>), Elem("p", <<>>), TextD,
                 Elem("footer", <<>>), TextE>>]

\* The pages given to the extractor: the elements inside <main>, inside
\* <body>, or inside a <div> of a fragment with neither.
ExtractDocs ==
    {ExtractDoc(container, items) :
        container \in {"main", "body", "div"},
        items \in UNION {[1 .. n -> ExtractAlphabet] : n \in 1 .. MaxExtract}}
    \cup {ListParagraphDoc}

InitExtract ==
    /\ html \in ExtractDocs
    /\ parsed = <<>>
    /\ passes = <<>>
    /\ session = <<>>
    /\ cli = NoRun
    /\ raw_name = <<>>
    /\ sanitize_calls = [sanitizer |-> "none", results |-> <<>>]
    /\ image_map = <<>>
    /\ pc = "start"
    /\ main_content = 0
    /\ stack = <<>>
    /\ output_buffer = <<>>
    /\ popped = <<>>
    /\ result = <<>>
    /\ scraped_data = ScrapedData("None", EmptyHtml)
    /\ include_images = FALSE
    /\ outputs = <<>>

\* parse_with_fallback(html_content, url, format_type) on the page
CallParseWithFallback ==
    /\ parsed = <<>>
    /\ \E format_type \in {"tagged", "markdown"} :
          \E r \in {ParseWithFallback(html, Url, format_type)} :
              parsed' = << [format_type |-> format_type, raised |-> r.raised,
                            value |-> r.value, processed |-> r.processed] >>
    /\ UNCHANGED <<html, image_map, pc, main_content, stack, output_buffer, popped, result,
                   format_vars, raw_name, sanitize_calls, passes, session, cli>>

NextExtract == CallParseWithFallback

SpecExtract == InitExtract /\ [][NextExtract]_vars

\* ------------------------------------------------------------ the scraper's cleaning passes
\* src/contxt/scraper.py

\* The nodes a decompose() of n destroys: n and its descendants.
Subtree(doc, n) == {n} \cup {i \in NodesOf(doc) : IsAncestor(doc, n, i)}

\* The tree left by a pass: the nodes of `gone` are taken out, and every
\* remaining node of DOMAIN strings (whose former descendants are in `gone`)
\* holds the one string given for it.  The nodes keep their document order.
Rebuild(doc, gone, strings) ==
    LET F[i \in 0 .. Len(doc.parent)] ==
            IF i = 0 THEN <<>>
            ELSE IF i \in gone THEN F[i - 1]
            ELSE IF i \in DOMAIN strings
            THEN F[i - 1] \o << [old |-> i, added |-> FALSE], [old |-> i, added |-> TRUE] >>
            ELSE Append(F[i - 1], [old |-> i, added |-> FALSE])
        items == F[Len(doc.parent)]
        index(n) == CHOOSE k \in DOMAIN items : items[k] = [old |-> n, added |-> FALSE]
    IN [parent |-> [k \in DOMAIN items |->
                      IF items[k].added THEN index(items[k].old)
                      ELSE IF doc.parent[items[k].old] = 0 THEN 0
                      ELSE index(doc.parent[items[k].old])],
        label |-> [k \in DOMAIN items |->
                      IF items[k].added THEN Txt("NavigableString", strings[items[k].old])
                      ELSE doc.label[items[k].old]]]

\* Mutant of NewSeenListItems: the set outlives the call, the next
\* conversion of the process starts with the texts the last one saw.
KeptSeenListItems == IF session = <<>> THEN {} ELSE session[Len(session)].seen

\* seen_list_items = set(): the set _deduplicate_list_items creates for the call.
NewSeenListItems == {}

\* seen_list_items when _deduplicate_list_items returns.
SeenListItemsAfter(doc) ==
    LET items == FindAll(doc, 1, {"li"})
    IN NewSeenListItems \cup {GetTextStrip(doc, items[i]) : i \in DOMAIN items}

\* The repeats found by the first phase of _deduplicate_list_items: every
\* <li>, in document order, whose stripped text an earlier <li> had.
ItemsToRemove(doc) ==
    LET items == FindAll(doc, 1, {"li"})
        F[i \in 0 .. Len(items)] ==
            IF i = 0 THEN [seen_list_items |-> NewSeenListItems, items_to_remove |-> <<>>]
            ELSE LET text == GetTextStrip(doc, items[i])
                 IN IF text \in F[i - 1].seen_list_items
                    THEN [F[i - 1] EXCEPT !.items_to_remove = Append(@, items[i])]
                    ELSE [F[i - 1] EXCEPT !.seen_list_items = @ \cup {text}]
    IN F[Len(items)].items_to_remove

\* _deduplicate_list_items(soup): the tree after the second phase, which
\* decomposes every repeat with its subtree.
DeduplicateListItems(doc) ==
    LET removed == ItemsToRemove(doc)
    IN Rebuild(doc, UNION {Subtree(doc, removed[k]) : k \in DOMAIN removed}, <<>>)

\* get_text(strip=True) of n while _concatenate_spans runs: ov.strings gives
\* the string of every span whose content was replaced, ov.dead the nodes
\* already destroyed or detached.
TextDuring(doc, ov, n) ==
    IF n \in DOMAIN ov.strings THEN Strip(ov.strings[n])
    ELSE LET d == Descendants(doc, n)
             F[i \in 0 .. Len(d)] ==
                 IF i = 0 THEN <<>>
                 ELSE IF d[i] \in ov.dead THEN F[i - 1]
                 ELSE IF d[i] \in DOMAIN ov.strings THEN F[i - 1] \o Strip(ov.strings[d[i]])
                 ELSE IF doc.label[d[i]].kind = "NavigableString"
                 THEN F[i - 1] \o Strip(doc.label[d[i]].string)
                 ELSE F[i - 1]
         IN F[Len(d)]

IsSpan(doc, n) == doc.label[n].kind = "Tag" /\ doc.label[n].name = "span"

\* soup.find_all(lambda tag: tag.find('span')): the Tags below the soup that
\* have a <span> descendant, in document order (a list made before the loop).
SpanParents(doc) ==
    SelectSeq(Descendants(doc, 1),
              LAMBDA n : doc.label[n].kind = "Tag" /\ Find(doc, n, {"span"}) # 0)

\* One iteration of the for loop of _concatenate_spans, for the parent p: the
\* while loop over the pairs of neighbours of the static list of children,
\* then the removal of the spans marked.  A parent destroyed or emptied by an
\* earlier iteration has no children to pair.
ConcatenateIn(doc, ov, p) ==
    IF p \in ov.dead \/ p \in DOMAIN ov.strings THEN ov
    ELSE LET children == Children(doc, p)
             last == IF Len(children) = 0 THEN 0 ELSE Len(children) - 1
             G[i \in 0 .. last] ==
                 IF i = 0 THEN [ov |-> ov, spans_to_remove |-> {}]
                 ELSE LET st == G[i - 1]
                          current == children[i]
                          next_elem == children[i + 1]
                          current_text == TextDuring(doc, st.ov, current)
                          next_text == TextDuring(doc, st.ov, next_elem)
                      IN IF IsSpan(doc, current) /\ IsSpan(doc, next_elem)
                            /\ current_text # <<>> /\ next_text # <<>>
                         THEN [ov |-> [strings |->
                                          [x \in DOMAIN st.ov.strings \cup {next_elem} |->
                                              IF x = next_elem
                                              THEN current_text \o <<" ">> \o next_text
                                              ELSE st.ov.strings[x]],
                                       dead |-> st.ov.dead
                                                \cup (Subtree(doc, next_elem) \ {next_elem})],
                               spans_to_remove |-> st.spans_to_remove \cup {current}]
                         ELSE st
             done == G[last]
         IN [strings |-> done.ov.strings,
             dead |-> done.ov.dead
                      \cup UNION {Subtree(doc, span) : span \in done.spans_to_remove}]

\* _concatenate_spans(soup): the tree after the loop over the parents.
ConcatenateSpans(doc) ==
    LET parents == SpanParents(doc)
        H[j \in 0 .. Len(parents)] ==
            IF j = 0 THEN [strings |-> <<>>, dead |-> {}]
            ELSE ConcatenateIn(doc, H[j - 1], parents[j])
    IN CHOOSE tree \in {Rebuild(doc, ov.dead, ov.strings) : ov \in {H[Len(parents)]}} : TRUE

\* A page as a nested value: a label and the pages of the children.
Leaf(label) == [label |-> label, kids |-> <<>>]
Branch(name, kids) == [label |-> Elem(name, <<>>), kids |-> kids]

RECURSIVE AddTree(_, _, _)
RECURSIVE AddForest(_, _, _)
\* The tree with the nested value t added below node up.
AddTree(doc, up, t) ==
    AddForest(AddNode(doc, up, t.label), Len(doc.parent) + 1, t.kids)

AddForest(doc, up, ts) ==
    IF ts = <<>> THEN doc ELSE AddForest(AddTree(doc, up, Head(ts)), up, Tail(ts))

TextTD == Txt("NavigableString", <<"T", "D">>)

\* The list items of the enumerated pages: <li>T</li>, <li>D</li>,
\* <li>TD</li>, <li> T\n</li> and <li>T<ul><li>D</li></ul></li>,
\* <li>D<ul><li>T</li></ul></li>.
ItemAlphabet ==
    {Branch("li", <<Leaf(t)>>) : t \in {TextT, TextD, TextTD, TextPadded}}
    \cup {Branch("li", <<Leaf(t[1]), Branch("ul", <<Branch("li", <<Leaf(t[2])>>)>>)>>) :
             t \in {<<TextT, TextD>>, <<TextD, TextT>>}}

\* The siblings of the enumerated pages with spans: <span>T</span>,
\* <span>D</span>, <span>\n </span>, the text E and
\* <span><span>T</span><span>D</span></span>.
SpanAlphabet ==
    {Branch("span", <<Leaf(t)>>) : t \in {TextT, TextD, TextBlank}}
    \cup {Leaf(TextE),
          Branch("span", <<Branch("span", <<Leaf(TextT)>>), Branch("span", <<Leaf(TextD)>>)>>)}

\* The parser gives one string for a run of text: no two strings are
\* neighbours.
NoAdjacentStrings(ts) ==
    \A i \in 1 .. Len(ts) - 1 : ~(ts[i].label.kind # "Tag" /\ ts[i + 1].label.kind # "Tag")

\* The pages given to the passes: <ul>items</ul>, and the spans either at
\* the top of the page or inside a <div>.
ScraperDocs ==
    {AddTree([parent |-> <<0>>, label |-> <<DocumentLabel>>], 1, Branch("ul", items)) :
        items \in UNION {[1 .. n -> ItemAlphabet] : n \in 1 .. MaxScrape}}
    \cup {AddTree([parent |-> <<0>>, label |-> <<DocumentLabel>>], 1, Branch("div", ts)) :
        ts \in {x \in UNION {[1 .. n -> SpanAlphabet] : n \in 1 .. MaxScrape} :
                   NoAdjacentStrings(x)}}
    \cup {AddForest([parent |-> <<0>>, label |-> <<DocumentLabel>>], 1, ts) :
        ts \in {x \in UNION {[1 .. n -> SpanAlphabet] : n \in 1 .. MaxScrape} :
                   NoAdjacentStrings(x)}}

InitScraper ==
    /\ html \in ScraperDocs
    /\ passes = <<>>
    /\ session = <<>>
    /\ cli = NoRun
    /\ parsed = <<>>
    /\ raw_name = <<>>
    /\ sanitize_calls = [sanitizer |-> "none", results |-> <<>>]
    /\ image_map = <<>>
    /\ pc = "start"
    /\ main_content = 0
    /\ stack = <<>>
    /\ output_buffer = <<>>
    /\ popped = <<>>
    /\ result = <<>>
    /\ scraped_data = ScrapedData("None", EmptyHtml)
    /\ include_images = FALSE
    /\ outputs = <<>>

\* The tree the next pass is given: the page, then what the last pass left.
SoupCopy == IF passes = <<>> THEN html ELSE passes[Len(passes)].after

\* self._deduplicate_list_items(soup_copy)
CallDeduplicateListItems ==
    /\ \A i \in DOMAIN passes : passes[i].pass # "deduplicate_list_items"
    /\ \E after \in {DeduplicateListItems(SoupCopy)} :
          passes' = Append(passes, [pass |-> "deduplicate_list_items",
                                    before |-> SoupCopy, after |-> after])
    /\ UNCHANGED <<html, image_map, pc, main_content, stack, output_buffer, popped, result,
                   format_vars, raw_name, sanitize_calls, parsed, session, cli>>

\* self._concatenate_spans(soup_copy)
CallConcatenateSpans ==
    /\ \A i \in DOMAIN passes : passes[i].pass # "concatenate_spans"
    /\ \E after \in {ConcatenateSpans(SoupCopy)} :
          passes' = Append(passes, [pass |-> "concatenate_spans",
                                    before |-> SoupCopy, after |-> after])
    /\ UNCHANGED <<html, image_map, pc, main_content, stack, output_buffer, popped, result,
                   format_vars, raw_name, sanitize_calls, parsed, session, cli>>

NextScraper == CallDeduplicateListItems \/ CallConcatenateSpans

SpecScraper == InitScraper /\ [][NextScraper]_vars

\* ------------------------------------------------------------ conversions in sequence
\* One process converts pages one after the other with the same converter:
\* the scraper's list pass, the fallback extractor, or _html_to_markdown.
\* Each conversion is recorded with what it returned and with the seen set
\* and the buffer it held when it returned.

\* seen_list_items when parse_with_fallback returns.
SeenSetAfter(doc) ==
    LET soup == Decompose(doc, {"nav", "footer"})
        main == Find(soup, 1, {"main"})
        root == IF main # 0 THEN main ELSE Find(soup, 1, {"body"})
        elements == IF root = 0 THEN <<>> ELSE ExtractedElements(soup, root)
    IN NewSeenSet \cup {CleanedText(soup, elements[i]) :
                          i \in {k \in DOMAIN elements : soup.label[elements[k]].name = "li"}}

\* The pages of a session: <body> with list items and headings.
SessionDocs ==
    {ExtractDoc("body", items) :
        items \in UNION {[1 .. n -> {<<"li", TextT>>, <<"li", TextD>>, <<"h2", TextT>>}] :
                            n \in 1 .. MaxSessionItems}}

InitSession ==
    /\ session = <<>>
    /\ cli = NoRun
    /\ html = EmptyHtml
    /\ passes = <<>>
    /\ parsed = <<>>
    /\ raw_name = <<>>
    /\ sanitize_calls = [sanitizer |-> "none", results |-> <<>>]
    /\ image_map = <<>>
    /\ pc = "start"
    /\ main_content = 0
    /\ stack = <<>>
    /\ output_buffer = <<>>
    /\ popped = <<>>
    /\ result = <<>>
    /\ scraped_data = ScrapedData("None", EmptyHtml)
    /\ include_images = FALSE
    /\ outputs = <<>>

\* The converter of the session is the one of its first conversion.
SameConverter(converter) ==
    /\ Len(session) < MaxSession
    /\ IF session = <<>> THEN TRUE ELSE session[1].converter = converter

\* scraper._deduplicate_list_items(soup) on the next page
ConvertListItems ==
    /\ SameConverter("deduplicate_list_items")
    /\ \E doc \in SessionDocs :
          \E r \in {[returned |-> DeduplicateListItems(doc), seen |-> SeenListItemsAfter(doc)]} :
              session' = Append(session, [converter |-> "deduplicate_list_items", input |-> doc,
                                          returned |-> r.returned, seen |-> r.seen,
                                          buffer |-> <<>>])
    /\ UNCHANGED <<html, image_map, pc, main_content, stack, output_buffer, popped, result,
                   format_vars, raw_name, sanitize_calls, parsed, passes, cli>>

\* parse_with_fallback(html_content, url, 'tagged') on the next page; what
\* the helper wrote is recorded with the string returned.
ConvertWithFallback ==
    /\ SameConverter("parse_with_fallback")
    /\ \E doc \in SessionDocs :
          \E r \in {ParseWithFallback(doc, Url, "tagged")} :
              session' = Append(session, [converter |-> "parse_with_fallback", input |-> doc,
                                          returned |-> <<r.value, r.processed>>,
                                          seen |-> SeenSetAfter(doc), buffer |-> <<>>])
    /\ UNCHANGED <<html, image_map, pc, main_content, stack, output_buffer, popped, result,
                   format_vars, raw_name, sanitize_calls, parsed, passes, cli>>

\* formatter._html_to_markdown(html) on the next page
ConvertToMarkdownOutput ==
    /\ SameConverter("html_to_markdown")
    /\ \E doc \in SessionDocs :
          \E r \in {[returned |-> HtmlToMarkdownValue("str", doc),
                     buffer |-> ProcessElementIteratively(doc, << <<MainContent(doc), 0>> >>,
                                                          NewMarkdownOutput)]} :
              session' = Append(session, [converter |-> "html_to_markdown", input |-> doc,
                                          returned |-> r.returned, seen |-> {},
                                          buffer |-> r.buffer])
    /\ UNCHANGED <<html, image_map, pc, main_content, stack, output_buffer, popped, result,
                   format_vars, raw_name, sanitize_calls, parsed, passes, cli>>

NextSession == ConvertListItems \/ ConvertWithFallback \/ ConvertToMarkdownOutput

SpecSession == InitSession /\ [][NextSession]_vars

\* ------------------------------------------------------------ the traversal run to its end
\* The pages whose conversion is followed to its return: nested <div>, mixed
\* content, <pre>, lists and headings, and the empty string.
LiveDocs == ChainDocs \cup MixedDocs \cup PreDocs \cup SessionDocs \cup {ListParagraphDoc, EmptyHtml}

InitLive ==
    /\ html \in LiveDocs
    /\ image_map = <<>>
    /\ pc = "start"
    /\ main_content = 0
    /\ stack = <<>>
    /\ output_buffer = <<>>
    /\ popped = <<>>
    /\ result = <<>>
    /\ scraped_data = ScrapedData("str", html)
    /\ include_images = FALSE
    /\ outputs = <<>>
    /\ NoHelperCall

\* The conversion is one sequential call: nothing stops the interpreter
\* between two statements, so the call reaches the loop and an iteration
\* that can be made is made.
SpecLive ==
    InitLive /\ [][Next]_vars /\ WF_vars(HtmlToMarkdown) /\ WF_vars(PopString \/ PopElement)

\* ------------------------------------------------------------ cli.main: where the output goes
\* One run of main from the loop over the URLs to the end, with no
\* interrupt.  The formatted content of URL k is k; process_url fails or
\* succeeds for each URL.

\* get_output_handler(destination, ...): the class of the handler returned.
GetOutputHandler(destination) ==
    CASE destination = "print" -> "ConsoleOutputHandler"
      [] destination = "file" -> "FileOutputHandler"
      [] destination = "clipboard" -> "ClipboardOutputHandler"
      [] OTHER -> "ConsoleOutputHandler"

\* The handler main creates before the loop.
HandlerBeforeLoop(destination) ==
    CASE destination = "print" -> GetOutputHandler("print")
      [] destination = "file" -> GetOutputHandler("file")
      [] destination = "clipboard" -> GetOutputHandler("clipboard")
      [] OTHER -> GetOutputHandler("print")

\* The handler main creates after the loop.
HandlerAfterLoop(destination) ==
    CASE destination = "print" -> GetOutputHandler("print")
      [] destination = "clipboard" -> GetOutputHandler("clipboard")
      [] OTHER -> GetOutputHandler("print")

\* output_handler.output(content, ...) on the run r: the console handler
\* prints and returns True, the file handler writes a file named after the
\* content and returns its path, the clipboard handler copies and returns
\* True.  [run, returned].
HandlerOutput(r, content) ==
    CASE r.output_handler = "ConsoleOutputHandler" ->
           [run |-> [r EXCEPT !.console = Append(@, content)], returned |-> "True"]
      [] r.output_handler = "FileOutputHandler" ->
           [run |-> [r EXCEPT !.files = Append(@, content)], returned |-> <<"path", content>>]
      [] r.output_handler = "ClipboardOutputHandler" ->
           [run |-> [r EXCEPT !.clipboard = Append(@, content)], returned |-> "True"]

\* The message main prints when the value returned is true.
Report(r, returned) == [r EXCEPT !.reported = Append(@, returned)]

RECURSIVE SaveEach(_, _)
\* for content, url, _, _ in all_content: output, then report the path
SaveEach(r, todo) ==
    IF todo = <<>> THEN r
    ELSE LET out == HandlerOutput(r, Head(todo))
         IN SaveEach(Report(out.run, out.returned), Tail(todo))

InitCli ==
    /\ \E destination \in {"print", "file", "clipboard"}, single_file \in BOOLEAN,
          urls \in 1 .. MaxUrls :
          cli = [position |-> "loop", destination |-> destination, single_file |-> single_file,
                 urls |-> urls, processed |-> 0, all_content |-> <<>>,
                 output_handler |-> HandlerBeforeLoop(destination),
                 console |-> <<>>, files |-> <<>>, clipboard |-> <<>>, reported |-> <<>>]
    /\ session = <<>>
    /\ html = EmptyHtml
    /\ passes = <<>>
    /\ parsed = <<>>
    /\ raw_name = <<>>
    /\ sanitize_calls = [sanitizer |-> "none", results |-> <<>>]
    /\ image_map = <<>>
    /\ pc = "start"
    /\ main_content = 0
    /\ stack = <<>>
    /\ output_buffer = <<>>
    /\ popped = <<>>
    /\ result = <<>>
    /\ scraped_data = ScrapedData("None", EmptyHtml)
    /\ include_images = FALSE
    /\ outputs = <<>>

CliUnchanged ==
    UNCHANGED <<html, image_map, pc, main_content, stack, output_buffer, popped, result,
                format_vars, raw_name, sanitize_calls, parsed, passes, session>>

\* One turn of the loop over the URLs: a result is kept in all_content and,
\* when the contents are not combined and go to the console, printed at once
\* by a console handler made on the spot.
ProcessUrl ==
    /\ cli.position = "loop"
    /\ cli.processed < cli.urls
    /\ \E succeeded \in BOOLEAN :
          LET content == cli.processed + 1
              counted == [cli EXCEPT !.processed = content]
              kept == [counted EXCEPT !.all_content = Append(@, content)]
              rebound == [kept EXCEPT !.output_handler = GetOutputHandler("print")]
          IN cli' = IF ~succeeded THEN counted
                    ELSE IF ~cli.single_file /\ cli.destination = "print"
                    THEN HandlerOutput(rebound, content).run
                    ELSE kept
    /\ CliUnchanged

\* After the loop: nothing to output, or the handler is created again.
CreateOutputHandler ==
    /\ cli.position = "loop"
    /\ cli.processed = cli.urls
    /\ cli' = IF cli.all_content = <<>> THEN [cli EXCEPT !.position = "done"]
              ELSE [cli EXCEPT !.position = "output",
                               !.output_handler = HandlerAfterLoop(cli.destination)]
    /\ CliUnchanged

\* The output of the contents, combined or one by one, by destination.
HandleOutput ==
    /\ cli.position = "output"
    /\ LET n == Len(cli.all_content)
           combined == <<"combined", cli.all_content>>
           out == HandlerOutput(cli, combined)
           first == HandlerOutput(cli, cli.all_content[1])
           after ==
               IF cli.single_file /\ n > 1
               THEN (IF cli.destination = "print" THEN out.run
                     ELSE Report(out.run, out.returned))
               ELSE IF cli.destination = "print" /\ n = 1 THEN first.run
               ELSE IF cli.destination = "file" THEN SaveEach(cli, cli.all_content)
               ELSE IF cli.destination = "clipboard" /\ n = 1
               THEN Report(first.run, first.returned)
               ELSE cli
       IN cli' = [after EXCEPT !.position = "done"]
    /\ CliUnchanged

NextCli == ProcessUrl \/ CreateOutputHandler \/ HandleOutput

SpecCli == InitCli /\ [][NextCli]_vars

\* ------------------------------------------------------------ claims: Markdown traversal
RECURSIVE PreOrder(_, _)
\* The pre-order listing of the subtree of n: n, then the listings of its
\* children from first to last.
PreOrder(doc, n) ==
    LET c == Children(doc, n)
        F[i \in 0 .. Len(c)] ==
            IF i = 0 THEN <<>> ELSE F[i - 1] \o PreOrder(doc, c[i])
    IN <<n>> \o F[Len(c)]

\* The position of x in a sequence without repetitions, 0 when absent.
IndexOf(seq, x) ==
    IF \E i \in 1 .. Len(seq) : seq[i] = x
    THEN CHOOSE i \in 1 .. Len(seq) : seq[i] = x
    ELSE 0

\* s is a later sibling of a
LaterSibling(doc, a, s) ==
    /\ a # s
    /\ doc.parent[a] = doc.parent[s]
    /\ doc.parent[a] # 0
    /\ IndexOf(Children(doc, doc.parent[a]), a) < IndexOf(Children(doc, doc.parent[a]), s)

HandledNames ==
    HeadingNames \cup {"p", "a", "img", "strong", "b", "em", "i", "code", "pre",
                       "blockquote", "ul", "ol", "table", "hr", "br"}

\* C2: an element the traversal renders itself (heading, p, a, img, strong/b,
\* em/i, code, pre, blockquote, ul/ol, table, hr, br) never has a child put on
\* the work list, so its text reaches the buffer once only.
C2_HandledChildrenNotScheduled ==
    \A k \in 1 .. Len(stack) :
        LET up == html.parent[stack[k][1]]
        IN up # 0 /\ stack[k][1] # main_content
              => html.label[up].name \notin HandledNames

\* C3: k nested <div>, each with one <p>T</p>, convert to a string holding
\* exactly k occurrences of T.
C3_NestedTextCount ==
    \A k \in 1 .. MaxNest :
        pc = "done" /\ html = NestedDoc(k) => Count("T", result) = k

\* Tags the spec says are omitted entirely.
SkipNames == {"script", "style", "noscript", "iframe"}

\* C4 (Markdown): nothing inside a <script>, <style>, <noscript> or <iframe>
\* is ever scheduled or processed, and no Script string reaches the buffer.
C4_SkippedSubtreeNeverVisited ==
    LET inside(n) == \E a \in NodesOf(html) :
                        /\ IsAncestor(html, a, n)
                        /\ html.label[a].name \in SkipNames
    IN /\ \A k \in 1 .. Len(stack) : ~inside(stack[k][1])
       /\ \A i \in 1 .. Len(popped) : ~inside(popped[i])
       /\ \A i \in 1 .. Len(output_buffer) : Count("s", output_buffer[i]) = 0

\* C5: two lists whose <li> have the same stripped text render that item once.
C5_DuplicateListItemOnce ==
    \A x \in {"ul", "ol"}, t1, t2 \in ListTexts :
        /\ pc = "done"
        /\ html = TwoListsDoc(x, t1, t2)
        /\ Strip(t1.string) = Strip(t2.string)
        => Occurrences(result, Strip(t1.string)) = 1

\* The element processed by the last iteration is an <a> without href.
LastPoppedAnchorNoHref ==
    /\ pc = "loop"
    /\ popped # <<>>
    /\ html.label[popped[Len(popped)]].kind = "Tag"
    /\ html.label[popped[Len(popped)]].name = "a"
    /\ "href" \notin DOMAIN html.label[popped[Len(popped)]].attrs

\* C9 as stated: an <a> without href is emitted as [text](text) when it has
\* text, and as plain text without link syntax when it has none.
C9_TextIsLabelAndTarget ==
    LastPoppedAnchorNoHref =>
        LET text == GetTextStrip(html, popped[Len(popped)])
        IN /\ output_buffer # <<>>
           /\ output_buffer[Len(output_buffer)] =
                 IF text # <<>>
                 THEN <<"[">> \o text \o <<"]", "(">> \o text \o <<")">>
                 ELSE text

\* C9 as amended: an <a> without href is emitted as [text]() -- the label is
\* the stripped text, the target is empty, also when the text is empty.
C9_EmptyTarget ==
    LastPoppedAnchorNoHref =>
        /\ output_buffer # <<>>
        /\ output_buffer[Len(output_buffer)] =
              <<"[">> \o GetTextStrip(html, popped[Len(popped)]) \o <<"]", "(", ")">>

\* An <a> without href but with text has just been rendered.
C9_Witness ==
    /\ LastPoppedAnchorNoHref
    /\ GetTextStrip(html, popped[Len(popped)]) # <<>>

\* C10: an <img> whose src is a key of image_map is emitted with the mapped
\* local path; otherwise with its src; an absent or empty alt reads "Image".
C10_ImageMapSubstituted ==
    /\ pc = "loop"
    /\ popped # <<>>
    /\ html.label[popped[Len(popped)]].name = "img"
    /\ Get(html, popped[Len(popped)], "src", <<>>) # <<>>
    => LET src == Get(html, popped[Len(popped)], "src", <<>>)
           a == Get(html, popped[Len(popped)], "alt", <<>>)
           alt == IF a = <<>> THEN ImageAltDefault ELSE a
           target == IF src \in DOMAIN image_map THEN image_map[src] ELSE src
       IN /\ output_buffer # <<>>
          /\ output_buffer[Len(output_buffer)] =
                <<"!", "[">> \o alt \o <<"]", "(">> \o target \o <<")">>

\* ------------------------------------------------------------ claims: format()
\* C6 (as the specification states it): two conversions of the same input by
\* the same dialect under the same configuration return the same outcome,
\* byte for byte.  XMLFormatter violates it: the attributes of an element
\* are written in the iteration order of the set important_attrs.
C6_SameInputSameOutput ==
    \A i, j \in DOMAIN outputs :
        /\ outputs[i].format_type = outputs[j].format_type
        /\ outputs[i].input = outputs[j].input
        /\ outputs[i].include_images = outputs[j].include_images
        /\ outputs[i].image_map = outputs[j].image_map
        => /\ outputs[i].raised = outputs[j].raised
           /\ outputs[i].value = outputs[j].value

\* C7 (as the specification states it): no call of format() on a non-empty
\* content raises.  XMLFormatter violates it on an element with a class
\* attribute: the lookup of the renamed attribute raises KeyError.
C7_NonEmptyContentNeverRaises ==
    \A i \in DOMAIN outputs :
        ~ContentIsFalse(outputs[i].input) => ~outputs[i].raised

\* C8: for a content that is "" or None every formatter returns its error
\* string (naming the title and the url) and raises nothing, and
\* _html_to_markdown("") is the empty string.
C8_EmptyContentErrorString ==
    /\ \A i \in DOMAIN outputs :
          outputs[i].input.kind = "None"
             \/ (outputs[i].input.kind = "str" /\ outputs[i].input.content = EmptyHtml)
          => /\ ~outputs[i].raised
             /\ outputs[i].value =
                  CASE outputs[i].format_type = "markdown" ->
                         <<"#", " ", "E", "r", "r", "o", "r", ":", " ">> \o Title
                         \o <<"\n", "\n", "F", "a", "i", "l", "e", "d", " ", "t", "o", " ", "f", "e", "t", "c", "h", " ", "c", "o", "n", "t", "e", "n", "t", " ", "f", "r", "o", "m", " ">> \o Url
                    [] outputs[i].format_type = "xml" ->
                         <<"<", "?", "x", "m", "l", " ", "v", "e", "r", "s", "i", "o", "n", "=", "\"", "1", ".", "0", "\"", " ", "?", ">", "\n", "<", "e", "r", "r", "o", "r", " ", "u", "r", "l", "=", "\"">>
                         \o Url \o <<"\"", ">">> \o Title \o <<"<", "/", "e", "r", "r", "o", "r", ">">>
                    [] outputs[i].format_type \in {"raw", "html"} ->
                         <<"<", "!", "-", "-", " ", "E", "r", "r", "o", "r", " ", "f", "e", "t", "c", "h", "i", "n", "g", " ", "c", "o", "n", "t", "e", "n", "t", " ", "f", "r", "o", "m", " ">> \o Url
                         \o <<" ", "-", "-", ">", "\n", "<", "h", "1", ">">> \o Title \o <<"<", "/", "h", "1", ">">>
    /\ HtmlToMarkdownValue("str", EmptyHtml) = <<>>

\* C8 witness: the empty string has been given to two different formatters.
C8_Witness ==
    /\ Len(outputs) = 2
    /\ scraped_data.kind = "str"
    /\ scraped_data.content = EmptyHtml
    /\ outputs[1].format_type = "xml"
    /\ outputs[2].format_type = "html"

\* ------------------------------------------------------------ claims: tables and lists
\* The element processed by the last iteration is a Tag with one of the names.
LastPoppedIs(names) ==
    /\ pc = "loop"
    /\ popped # <<>>
    /\ html.label[popped[Len(popped)]].kind = "Tag"
    /\ html.label[popped[Len(popped)]].name \in names

\* The stripped texts of the th/td cells of a <tr>, in document order.
CellTexts(doc, tr) ==
    LET cs == FindAll(doc, tr, {"th", "td"})
    IN [i \in 1 .. Len(cs) |-> GetTextStrip(doc, cs[i])]

\* "| c1 | c2 | ... |"
PipeLine(cells) ==
    LET F[i \in 0 .. Len(cells)] ==
            IF i = 0 THEN <<"|">> ELSE F[i - 1] \o <<" ">> \o cells[i] \o <<" ", "|">>
    IN F[Len(cells)]

\* The lines the specification gives for a table whose first <tr> has cells.
ExpectedTableLines(doc, table) ==
    LET trs == FindAll(doc, table, {"tr"})
        header == CellTexts(doc, trs[1])
        dashes == [i \in 1 .. Len(header) |->
                     [j \in 1 .. (IF Len(header[i]) >= 3 THEN Len(header[i]) ELSE 3) |-> "-"]]
        F[i \in 1 .. Len(trs)] ==
            IF i = 1 THEN <<PipeLine(header), PipeLine(dashes)>>
            ELSE IF CellTexts(doc, trs[i]) # <<>>
                 THEN Append(F[i - 1], PipeLine(CellTexts(doc, trs[i])))
                 ELSE F[i - 1]
    IN F[Len(trs)]

\* The first <tr> of the table processed last has at least one cell.
LastPoppedTableWithHeader ==
    /\ LastPoppedIs({"table"})
    /\ FindAll(html, popped[Len(popped)], {"tr"}) # <<>>
    /\ CellTexts(html, FindAll(html, popped[Len(popped)], {"tr"})[1]) # <<>>

\* C11: a <table> whose first <tr> has k >= 1 cells is rendered as the header
\* line, the separator line of max(3, len) dashes per header cell, and one
\* line for every later <tr> with a cell, in document order, ended by a blank
\* line; the first <tr> is not repeated, and nothing inside a table is
\* processed on its own.
C11_TableRendering ==
    /\ LastPoppedTableWithHeader =>
          /\ output_buffer # <<>>
          /\ output_buffer[Len(output_buffer)] =
                Join(<<"\n">>, ExpectedTableLines(html, popped[Len(popped)])) \o <<"\n", "\n">>
    /\ \A i \in 1 .. Len(popped) :
          \A a \in NodesOf(html) :
              IsAncestor(html, a, popped[i]) => html.label[a].name # "table"

\* C11 witness: a table has just been rendered whose header cell is longer
\* than three characters and that has two later rows with cells.
C11_Witness ==
    /\ LastPoppedTableWithHeader
    /\ LET trs == FindAll(html, popped[Len(popped)], {"tr"})
       IN /\ Len(trs) = 3
          /\ Len(CellTexts(html, trs[1])[1]) > 3
          /\ Len(CellTexts(html, trs[2])) = 2
          /\ CellTexts(html, trs[3]) # <<>>

\* The decimal digits of a number from 1 to 9.
Numeral(i) == <<"1", "2", "3", "4", "5", "6", "7", "8", "9">>[i]

\* The <li> children of a list, in document order.
DirectItems(doc, list) ==
    LET c == Children(doc, list)
    IN SelectSeq(c, LAMBDA n : doc.label[n].kind = "Tag" /\ doc.label[n].name = "li")

\* C12: a <ul> or <ol> with k >= 1 direct <li> is rendered as exactly k lines,
\* in document order, line i being the marker ("i." for ol, "-" for ul), a
\* space and the text of item i; nothing below a list is scheduled or
\* processed on its own, so the items of a nested list get no marker.
C12_ListRendering ==
    /\ LastPoppedIs({"ul", "ol"}) /\ DirectItems(html, popped[Len(popped)]) # <<>> =>
          LET list == popped[Len(popped)]
              items == DirectItems(html, list)
              line(i) == (IF html.label[list].name = "ol" THEN <<Numeral(i), ".">>
                          ELSE <<"-">>)
                         \o <<" ">> \o GetTextStrip(html, items[i])
              lines == [i \in 1 .. Len(items) |-> line(i)]
          IN /\ output_buffer # <<>>
             /\ output_buffer[Len(output_buffer)] = Join(<<"\n">>, lines) \o <<"\n", "\n">>
             /\ Count("\n", output_buffer[Len(output_buffer)]) = Len(items) + 1
    /\ \A n \in {popped[i] : i \in 1 .. Len(popped)} \cup {stack[k][1] : k \in 1 .. Len(stack)} :
          \A a \in NodesOf(html) :
              IsAncestor(html, a, n) => html.label[a].name \notin {"ul", "ol"}

\* C12 witness: an ordered list of three items has just been rendered whose
\* first item holds a nested list.
C12_Witness ==
    /\ LastPoppedIs({"ol"})
    /\ Len(DirectItems(html, popped[Len(popped)])) = 3
    /\ \E n \in NodesOf(html) :
          /\ html.label[n].name \in {"ul", "ol"}
          /\ IsAncestor(html, popped[Len(popped)], n)

\* ------------------------------------------------------------ claims: post-processing
\* The line begins with one to six '#' followed by a space.
BeginsWithHeadingMarker(line) ==
    \E k \in 1 .. 6 :
        /\ Len(line) > k
        /\ \A j \in 1 .. k : line[j] = "#"
        /\ line[k + 1] = " "

\* C13 (as the specification states it): in the string _html_to_markdown
\* returns, every line but the first that begins with a heading marker comes
\* right after an empty line.  The substitution misses a marker line that
\* follows a line made of a marker only: the character before its newline
\* was consumed by the previous match.
C13_HeadingAfterBlankLine ==
    pc = "done" =>
        LET lines == SplitLines(result, <<>>)
        IN \A i \in 2 .. Len(lines) :
              BeginsWithHeadingMarker(lines[i]) => lines[i - 1] = <<>>

\* C14: the string _html_to_markdown returns never holds three consecutive
\* newlines.
C14_NoThreeNewlines ==
    pc = "done" => ~Contains(result, <<"\n", "\n", "\n">>)

\* C14 witness: a conversion has returned whose joined fragments held three
\* consecutive newlines.
C14_Witness ==
    /\ pc = "done"
    /\ Contains(Join(<<"\n">>, output_buffer), <<"\n", "\n", "\n">>)

\* ------------------------------------------------------------ claims: the sanitizers
\* A name that starts with a letter or underscore and holds only letters,
\* digits, underscores and hyphens.
ValidXmlName(chars) ==
    /\ chars # <<>>
    /\ chars[1] \in Letters \cup {"_"}
    /\ \A i \in 1 .. Len(chars) : chars[i] \in Letters \cup Digits \cup {"_", "-"}

\* The prefix the sanitizer called puts before a name.
SanitizerPrefix ==
    IF sanitize_calls.sanitizer = "tag" THEN <<"t", "a", "g", "_">>
    ELSE <<"a", "t", "t", "r", "_">>

\* Every result is a valid name, and a second application changes nothing.
SanitizedValidAndStable ==
    /\ \A i \in 1 .. Len(sanitize_calls.results) : ValidXmlName(sanitize_calls.results[i])
    /\ \A i \in 2 .. Len(sanitize_calls.results) : sanitize_calls.results[i] = sanitize_calls.results[i - 1]
    /\ sanitize_calls.sanitizer = "tag" /\ raw_name = <<"1", "w", "e", "i", "r", "d", "-", "t", "a", "g">> /\ sanitize_calls.results # <<>>
          => sanitize_calls.results[1] = <<"t", "a", "g", "_", "1", "w", "e", "i", "r", "d", "-", "t", "a", "g">>

\* C15 (as the specification states it): the sanitizers return valid names,
\* are idempotent, and give every name that does not start with a letter or
\* underscore the prefix tag_ / attr_.
C15_BadStartGetsPrefix ==
    /\ SanitizedValidAndStable
    /\ sanitize_calls.results # <<>> /\ raw_name # <<>> /\ raw_name[1] \notin Letters \cup {"_"}
          => StartsWith(sanitize_calls.results[1], SanitizerPrefix)

\* C15 (amended): the sanitizers return valid names and are idempotent; a
\* name that starts with a digit or a hyphen gets the prefix tag_ / attr_
\* before its characters, invalid ones replaced by '_'; a name that starts
\* with any other invalid character gets no prefix, that character having
\* become the leading underscore.
C15_DigitOrHyphenGetsPrefix ==
    /\ SanitizedValidAndStable
    /\ sanitize_calls.results # <<>> /\ raw_name # <<>> =>
          LET replaced == [i \in 1 .. Len(raw_name) |->
                             IF raw_name[i] \in Letters \cup Digits \cup {"_", "-"}
                             THEN raw_name[i] ELSE "_"]
          IN /\ raw_name[1] \in Digits \cup {"-"}
                  => sanitize_calls.results[1] = SanitizerPrefix \o replaced
             /\ raw_name[1] \notin Letters \cup Digits \cup {"_", "-"}
                  => sanitize_calls.results[1] = replaced /\ replaced[1] = "_"

\* C15 witness: a name that does not start with a letter or underscore and
\* holds an invalid character has been sanitized twice.
C15_Witness ==
    /\ Len(sanitize_calls.results) = 2
    /\ raw_name # <<>>
    /\ raw_name[1] \notin Letters \cup {"_"}
    /\ Len(raw_name) >= 2
    /\ raw_name[2] = "["

\* ------------------------------------------------------------ claims: the XML tree
\* The tags _clean_xml_structure never removes.
VoidXmlTags == {<<"i", "m", "g">>, <<"b", "r">>, <<"h", "r">>}

RECURSIVE NoEmptyElementBelow(_)
\* Every element below e other than img, br and hr has a text or a child.
NoEmptyElementBelow(e) ==
    \A i \in 1 .. Len(e.children) :
        /\ \/ e.children[i].tag \in VoidXmlTags
           \/ e.children[i].text # <<>>
           \/ e.children[i].children # <<>>
        /\ NoEmptyElementBelow(e.children[i])

\* C16: in the body of every XML conversion that returned, no element other
\* than img, br and hr is without text and without children.
C16_NoEmptyElementAfterClean ==
    \A i \in DOMAIN outputs :
        outputs[i].format_type = "xml" /\ ~outputs[i].raised
           => NoEmptyElementBelow(outputs[i].body)

\* C16 witness: an XML conversion of nested <div> that became empty one
\* after the other (only a skipped <button> held their text), next to a text
\* and a <br> that stayed.
C16_Witness ==
    \E i \in DOMAIN outputs :
        /\ outputs[i].format_type = "xml"
        /\ ~outputs[i].raised
        /\ outputs[i].input.content = ChainDoc(MaxNest, TRUE)
        /\ outputs[i].body.children # <<>>

\* ------------------------------------------------------------ claims: call depth
\* C17 (as the specification states it): every dialect walks the tree with an
\* explicit work list, so the walk function is never active more than once
\* on the call stack, however deep the document.  XMLFormatter and
\* HTMLFormatter recurse once per nesting level.
C17_WalkNeverNested ==
    \A i \in DOMAIN outputs : outputs[i].call_depth <= 1

\* ------------------------------------------------------------ claims: pre mode
\* The text nodes of the tree the HTML walk starts from that lie inside a
\* <pre>, and those that do not.
WalkedTexts(doc, inside) ==
    {n \in NodesOf(doc) :
        /\ IsAncestor(doc, MainContent(doc), n)
        /\ IsString(doc, n)
        /\ inside = (\E a \in NodesOf(doc) :
                        IsAncestor(doc, a, n) /\ doc.label[a].name = "pre")}

\* C18 (as the specification states it): in the formatted HTML every text
\* node inside a <pre> stands in a line of the output exactly as it stands
\* in the document, and every text node outside a <pre>, those after a
\* <pre> included, appears with its whitespace normalized.  The code drops a
\* whitespace-only text node of a <pre> that has other children, and
\* normalizes the text of a <pre> that is the only child of an inline
\* ancestor.
C18_PreTextVerbatim ==
    \A i \in DOMAIN outputs :
        (outputs[i].format_type \in {"html", "raw"} /\ ~ContentIsFalse(outputs[i].input)) =>
            LET soup == CleanSoup(outputs[i].input.content)
                lines == outputs[i].lines
            IN /\ \A n \in WalkedTexts(soup, TRUE) :
                      \E j \in DOMAIN lines : Contains(lines[j], soup.label[n].string)
               /\ \A n \in WalkedTexts(soup, FALSE) :
                      LET text == soup.label[n].string
                      IN Strip(text) # <<>> =>
                            \E j \in DOMAIN lines :
                                /\ Contains(lines[j], NormalizeSpace(text))
                                /\ text # NormalizeSpace(text) => ~Contains(lines[j], text)

\* ------------------------------------------------------------ claims: root selection
\* The Tags other than the root that carry the attribute key with the given
\* value (for class: as one of its values).
Carriers(doc, key, value) ==
    {i \in NodesOf(doc) \ {1} :
        /\ doc.label[i].kind = "Tag"
        /\ key \in DOMAIN doc.label[i].attrs
        /\ IF key = "class"
           THEN \E k \in 1 .. Len(doc.label[i].attrs[key]) : doc.label[i].attrs[key][k] = value
           ELSE doc.label[i].attrs[key] = value}

Named(doc, name) ==
    {i \in NodesOf(doc) \ {1} : doc.label[i].kind = "Tag" /\ doc.label[i].name = name}

\* The first non-empty set of candidates, in the order of priority the
\* specification gives; the root when every set is empty.
PriorityRoot(doc) ==
    LET sets == << Named(doc, "main"), Named(doc, "article"),
                   Carriers(doc, "id", ContentValue), Carriers(doc, "class", ContentValue),
                   Carriers(doc, "role", MainValue), Named(doc, "body") >>
        hits == {k \in 1 .. Len(sets) : sets[k] # {}}
    IN IF hits = {} THEN 1
       ELSE LET set == sets[CHOOSE k \in hits : \A j \in hits : k <= j]
            IN CHOOSE i \in set : \A j \in set : i <= j

\* C19 (as the specification states it): the traversal starts from the first
\* <main>, else the first <article>, else the first element with id
\* "content", else with class "content", else with role "main", else <body>,
\* else the document, whatever tag carries the id, class or role.  The code
\* looks for the three attributes on <div> elements only.
C19_RootByPriority ==
    (pc # "start" /\ html # EmptyHtml) => main_content = PriorityRoot(html)

\* ------------------------------------------------------------ claims: fallback extractor
EndsWith(s, suffix) ==
    Len(s) >= Len(suffix) /\ SubSeq(s, Len(s) - Len(suffix) + 1, Len(s)) = suffix

\* The tagged lines the specification describes are in the string t: the name
\* and text of every extracted element other than a span whose text is not
\* empty, the text of every span after "span: ", and the separator last.
TaggedLinesIn(doc, t) ==
    LET soup == Decompose(doc, {"nav", "footer"})
        main == Find(soup, 1, {"main"})
        elements == ExtractedElements(soup, IF main # 0 THEN main ELSE Find(soup, 1, {"body"}))
    IN /\ EndsWith(RStrip(t), <<"-", "-", "-">>)
       /\ \A i \in DOMAIN elements :
              LET name == soup.label[elements[i]].name
                  text == CleanedText(soup, elements[i])
              IN text # <<>> =>
                    IF name = "span"
                    THEN Contains(t, <<"s", "p", "a", "n", ":", " ">>) /\ Contains(t, text)
                    ELSE Contains(t, <<"\n">> \o NameChars(name) \o <<":", " ">> \o text)

\* C20 (as the specification states it): the string parse_with_fallback
\* returns for 'tagged' holds a "tagname: text" line for every extracted
\* element and ends with "---".  The code returns the header alone: the
\* string process_tagged_format builds is dropped.
C20_TaggedLinesReturned ==
    \A i \in DOMAIN parsed :
        (parsed[i].format_type = "tagged" /\ ~parsed[i].raised) =>
            TaggedLinesIn(html, parsed[i].value)

\* ------------------------------------------------------------ claims: cleaning passes
\* n is a <span> with text
SpanWithText(doc, n) == IsSpan(doc, n) /\ GetTextStrip(doc, n) # <<>>

\* The maximal runs of two or more neighbouring <span> children with text:
\* <<p, i, j>> for the children i .. j of p.
SpanRuns(doc) ==
    {r \in NodesOf(doc) \X NodesOf(doc) \X NodesOf(doc) :
        LET c == Children(doc, r[1])
        IN /\ r[2] < r[3] /\ r[3] <= Len(c)
           /\ \A m \in r[2] .. r[3] : SpanWithText(doc, c[m])
           /\ r[2] = 1 \/ ~SpanWithText(doc, c[r[2] - 1])
           /\ r[3] = Len(c) \/ ~SpanWithText(doc, c[r[3] + 1])}

\* The texts of a run, in document order, joined by single spaces.
RunText(doc, r) ==
    LET c == Children(doc, r[1])
    IN Join(<<" ">>, [m \in 1 .. r[3] - r[2] + 1 |-> GetTextStrip(doc, c[r[2] + m - 1])])

\* C21 (as the specification states it): after _concatenate_spans every run
\* of neighbouring spans with text has become one span holding the texts
\* joined by single spaces, so no such run is left, and a tree without a run
\* is unchanged.  The code leaves the runs at the top of the page, and
\* destroys a run nested in a span that is itself merged.
C21_AdjacentSpansMerged ==
    \A i \in DOMAIN passes :
        passes[i].pass = "concatenate_spans" =>
            /\ \A r \in SpanRuns(passes[i].before) :
                  \E n \in NodesOf(passes[i].after) :
                      /\ IsSpan(passes[i].after, n)
                      /\ GetTextStrip(passes[i].after, n) = RunText(passes[i].before, r)
            /\ SpanRuns(passes[i].after) = {}
            /\ SpanRuns(passes[i].before) = {} => passes[i].after = passes[i].before

\* The stripped texts of the <li> elements of a tree.
ItemTexts(doc) ==
    {GetTextStrip(doc, n) :
        n \in {k \in NodesOf(doc) : doc.label[k].kind = "Tag" /\ doc.label[k].name = "li"}}

\* C28 (as the specification states it): _deduplicate_list_items removes
\* repeats only, so every stripped text some <li> had before the pass is still
\* the text of some <li> after it.  The code destroys a repeat together with
\* the list items nested in it, and a nested repeat changes the text of the
\* item around it.
C28_FirstOccurrenceSurvives ==
    \A i \in DOMAIN passes :
        passes[i].pass = "deduplicate_list_items" =>
            ItemTexts(passes[i].before) \subseteq ItemTexts(passes[i].after)

NoSpace(s) == SelectSeq(s, LAMBDA c : c \notin Whitespace)

RECURSIVE XmlTextOrder(_)
\* The texts of an XML element in the order of its serialization: the text
\* of the element, then its children one after the other.
XmlTextOrder(e) ==
    LET F[i \in 0 .. Len(e.children)] ==
            IF i = 0 THEN e.text ELSE F[i - 1] \o XmlTextOrder(e.children[i])
    IN F[Len(e.children)]

RECURSIVE InputTextOrder(_, _)
\* The texts of the input below n that the XML dialect writes, in document
\* order: the strings, escaped, outside the skipped tags and the elements
\* without text.
InputTextOrder(doc, n) ==
    IF IsString(doc, n) THEN EscapeText(Strip(doc.label[n].string))
    ELSE IF doc.label[n].name \in SkipTags THEN <<>>
    ELSE IF doc.label[n].name \notin {"img", "br", "hr"} /\ GetTextStrip(doc, n) = <<>> THEN <<>>
    ELSE LET c == Children(doc, n)
             F[i \in 0 .. Len(c)] ==
                 IF i = 0 THEN <<>> ELSE F[i - 1] \o InputTextOrder(doc, c[i])
         IN F[Len(c)]

\* C23 (as the specification states it): the XML dialect writes the texts
\* and the child elements of an element in the order of the input, so the
\* texts of the body read in the order of the document.  The code appends
\* every string of an element to the text of the element, which is written
\* before all its children.
C23_XmlKeepsReadingOrder ==
    \A i \in DOMAIN outputs :
        (outputs[i].format_type = "xml" /\ ~outputs[i].raised
            /\ ~ContentIsFalse(outputs[i].input)) =>
           NoSpace(XmlTextOrder(outputs[i].body))
              = NoSpace(InputTextOrder(outputs[i].input.content, 1))

\* ------------------------------------------------------------ claims: the work list
\* C24: while _process_element_iteratively runs, no node is on the stack
\* twice, no node has been popped twice, and the stack is never longer than
\* the document has nodes.
C24_WorkListInvariant ==
    /\ \A i \in DOMAIN stack : \A j \in DOMAIN stack : i # j => stack[i][1] # stack[j][1]
    /\ \A i \in DOMAIN popped : \A j \in DOMAIN popped : i # j => popped[i] # popped[j]
    /\ Len(stack) <= Len(html.parent)

\* C24 witness: in the middle of the loop, after three iterations, with two
\* nodes waiting on the stack.
C24_Witness ==
    /\ pc = "loop"
    /\ Len(popped) = 3
    /\ Len(stack) = 2

\* C25: the loop of _process_element_iteratively ends: the conversion
\* gets past the loop with an empty stack, having made no more iterations
\* than the document has nodes.
C25_LoopTerminates ==
    <>(pc # "start" /\ stack = <<>> /\ Len(popped) <= Len(html.parent))

\* C25 witness: a conversion that returned after one iteration for every
\* node of a document of five nodes or more, the soup included.
C25_Witness ==
    /\ pc = "done"
    /\ stack = <<>>
    /\ Len(popped) = Len(html.parent)
    /\ Len(popped) >= 5

\* ------------------------------------------------------------ claims: comments
\* C26 (as the specification states it): the iteration that pops a comment
\* node leaves the output buffer as it was.  The code tests for
\* NavigableString, which a Comment is, and appends its stripped text.
C26_CommentAppendsNothing ==
    [][(pc = "loop" /\ stack # <<>> /\ html.label[Head(stack)[1]].kind = "Comment")
          => output_buffer' = output_buffer]_vars

\* ------------------------------------------------------------ claims: output destination
\* What a run with destination 'file' hands to the handlers: the combined
\* content in single-file mode with several results, else every result.
ContentsToSave ==
    IF cli.single_file /\ Len(cli.all_content) > 1 THEN << <<"combined", cli.all_content>> >>
    ELSE cli.all_content

\* C27 (as the specification states it): a finished run with destination
\* 'file' has written every content to a file through a FileOutputHandler,
\* has reported the paths, and has printed no content through the console
\* handler.  The handler created after the loop has no 'file' case and is
\* the console handler.
C27_FileDestinationWritesFiles ==
    (cli.position = "done" /\ cli.destination = "file" /\ cli.all_content # <<>>) =>
        /\ cli.files = ContentsToSave
        /\ cli.reported = [k \in DOMAIN ContentsToSave |-> <<"path", ContentsToSave[k]>>]
        /\ cli.console = <<>>

\* ------------------------------------------------------------ claims: the input of format()
\* C29 (as the specification states it): after a call of the HTML formatter
\* scraped_data is what the call was given, content included, so a formatter
\* called afterwards is given the same input.  The code cleans a
\* BeautifulSoup content in place: the selected elements are decomposed and
\* the other attributes deleted from the caller's tree.
C29_HtmlFormatLeavesInput ==
    \A i \in DOMAIN outputs :
        outputs[i].format_type \in {"html", "raw"} =>
            /\ scraped_data = outputs[i].input
            /\ \A j \in DOMAIN outputs : outputs[j].input = outputs[i].input

\* ------------------------------------------------------------ claims: XML escaping
\* The five entities an XML parser knows without a declaration, and the
\* character reference html.escape writes for the apostrophe.
XmlEntities ==
    << <<<<"&", "a", "m", "p", ";">>, "&">>, <<<<"&", "l", "t", ";">>, "<">>,
       <<<<"&", "g", "t", ";">>, ">">>, <<<<"&", "q", "u", "o", "t", ";">>, "\"">>,
       <<<<"&", "a", "p", "o", "s", ";">>, "'">>, <<<<"&", "#", "x", "2", "7", ";">>, "'">> >>

RECURSIVE XmlUnescape(_)
\* The characters an XML parser reads for serialized character data: every
\* entity becomes its character, once.
XmlUnescape(s) ==
    IF s = <<>> THEN <<>>
    ELSE LET hits == {k \in DOMAIN XmlEntities : StartsWith(s, XmlEntities[k][1])}
         IN IF hits = {} THEN <<Head(s)>> \o XmlUnescape(Tail(s))
            ELSE LET k == CHOOSE h \in hits : TRUE
                 IN <<XmlEntities[k][2]>>
                    \o XmlUnescape(SubSeq(s, Len(XmlEntities[k][1]) + 1, Len(s)))

RECURSIVE ParsedTextOrder(_)
\* The texts a parser reads back from the serialized element e: the text of
\* every element was written by the serializer and is read by the parser.
ParsedTextOrder(e) ==
    LET F[i \in 0 .. Len(e.children)] ==
            IF i = 0 THEN XmlUnescape(WriteData(e.text))
            ELSE F[i - 1] \o ParsedTextOrder(e.children[i])
    IN F[Len(e.children)]

RECURSIVE WrittenStrings(_, _)
\* The strings of the input below n that the XML dialect writes, as they
\* are in the document.
WrittenStrings(doc, n) ==
    IF IsString(doc, n) THEN Strip(doc.label[n].string)
    ELSE IF doc.label[n].name \in SkipTags THEN <<>>
    ELSE IF doc.label[n].name \notin {"img", "br", "hr"} /\ GetTextStrip(doc, n) = <<>> THEN <<>>
    ELSE LET c == Children(doc, n)
             F[i \in 0 .. Len(c)] ==
                 IF i = 0 THEN <<>> ELSE F[i - 1] \o WrittenStrings(doc, c[i])
         IN F[Len(c)]

\* s and t hold the same characters the same number of times.
SameCharacters(s, t) ==
    \A c \in {s[k] : k \in DOMAIN s} \cup {t[k] : k \in DOMAIN t} :
        Cardinality({k \in DOMAIN s : s[k] = c}) = Cardinality({k \in DOMAIN t : t[k] = c})

\* C30 (as the specification states it): a parser reading the XML returned
\* gets the characters of the texts of the input, each text having been
\* escaped once.  The code escapes with html.escape and the serializer
\* escapes again, so the parser reads the entity where the input had the
\* character.
C30_XmlEscapingRoundTrips ==
    \A i \in DOMAIN outputs :
        (outputs[i].format_type = "xml" /\ ~outputs[i].raised
            /\ ~ContentIsFalse(outputs[i].input)) =>
           SameCharacters(NoSpace(ParsedTextOrder(outputs[i].body)),
                          NoSpace(WrittenStrings(outputs[i].input.content, 1)))

====
